---- MODULE Spec2Model ----
(***************************************************************************)
(* A model of the L1 snapshot codec of typhfeng/stk:                       *)
(*   src/cpp/script/binary_encoder_L1_all.py          (all assets)         *)
(*   src/cpp/script/binary_encoder_L1_1asset_1month.py (one asset)         *)
(* and of its archive repair scripts, src/py/app/FileRepair.               *)
(*                                                                         *)
(* The specifications share the operators below.                           *)
(*   SpecCodec      encode_month_snapshots run stage by stage on one       *)
(*                  DataFrame, followed by the decoder of spec.md 4.6/4.7. *)
(*   SpecMemory     SpecCodec started on memory that np.empty leaves       *)
(*                  uninitialised.                                         *)
(*   Spec           a month folder grouped by symbol and every symbol      *)
(*                  encoded and written (process_symbol_files,             *)
(*                  process_month_folder).                                 *)
(*   SpecVariants   Spec on month folders of files that encode and files   *)
(*                  that fail.                                             *)
(*   SpecQuantizer  the price and direction conversions of                 *)
(*                  parse_snapshot_df and price_to_tick on single values.  *)
(*   SpecYear       process_all_zips: the archives of a year folder        *)
(*                  decompressed, the months processed one after another,  *)
(*                  the temp directory removed.                            *)
(*   SpecSchema     the module-level code that builds the struct format    *)
(*                  and the dtype from a schema, and the first encode.     *)
(*   SpecRepair     process_with_pool running fix_single_archive or        *)
(*                  convert_single_zip over a list of items.               *)
(*                                                                         *)
(* Numbers keep the width of their numpy type.  TLC's integers are 32-bit, *)
(* so a uint32 (turnover) is held as two 16-bit limbs [hi, lo] standing    *)
(* for hi * 2^16 + lo.                                                     *)
(***************************************************************************)
EXTENDS Integers, Sequences, FiniteSets, TLC

\* ------------------------------------------------------------------------
\* Bounds of the model
\* ------------------------------------------------------------------------

\* Longest DataFrame handed to encode_month_snapshots under SpecCodec.
MaxBatch == 3

\* ------------------------------------------------------------------------
\* Generic helpers
\* ------------------------------------------------------------------------

Range(s) == { s[i] : i \in 1..Len(s) }

Min(a, b) == IF a <= b THEN a ELSE b

Max(a, b) == IF a >= b THEN a ELSE b

RECURSIVE Flatten(_)
Flatten(ss) == IF ss = <<>> THEN <<>> ELSE Head(ss) \o Flatten(Tail(ss))

RECURSIVE SumSeq(_)
SumSeq(s) == IF s = <<>> THEN 0 ELSE Head(s) + SumSeq(Tail(s))

Reverse(s) == [i \in 1..Len(s) |-> s[Len(s) + 1 - i]]

\* All sequences over S of length 0..n.
SeqsUpTo(S, n) == UNION { [1..k -> S] : k \in 0..n }

\* ------------------------------------------------------------------------
\* FieldSchema: binary_format and the two layouts derived from it
\* ------------------------------------------------------------------------

\* binary_format, in declaration order.  'int16[5]' is held as base "int16",
\* length 5; a scalar has length 1.
binary_format ==
    << [name |-> "sync",              base |-> "bool",   length |-> 1, is_diff |-> FALSE],
       [name |-> "date",              base |-> "uint8",  length |-> 1, is_diff |-> TRUE],
       [name |-> "time_s",            base |-> "uint16", length |-> 1, is_diff |-> TRUE],
       [name |-> "latest_price_tick", base |-> "int16",  length |-> 1, is_diff |-> TRUE],
       [name |-> "trade_count",       base |-> "uint8",  length |-> 1, is_diff |-> FALSE],
       [name |-> "turnover",          base |-> "uint32", length |-> 1, is_diff |-> FALSE],
       [name |-> "volume",            base |-> "uint16", length |-> 1, is_diff |-> FALSE],
       [name |-> "bid_price_ticks",   base |-> "int16",  length |-> 5, is_diff |-> TRUE],
       [name |-> "bid_volumes",       base |-> "uint16", length |-> 5, is_diff |-> FALSE],
       [name |-> "ask_price_ticks",   base |-> "int16",  length |-> 5, is_diff |-> TRUE],
       [name |-> "ask_volumes",       base |-> "uint16", length |-> 5, is_diff |-> FALSE],
       [name |-> "direction",         base |-> "uint8",  length |-> 1, is_diff |-> FALSE] >>

FieldNames == { binary_format[k].name : k \in 1..Len(binary_format) }

FieldIndex(f) == CHOOSE k \in 1..Len(binary_format) : binary_format[k].name = f

Field(f) == binary_format[FieldIndex(f)]

\* The element size in bytes of a base type: the numpy scalar types of
\* type_to_np_dtype, which are the standard sizes of the struct characters
\* of type_to_struct_fmt.
type_to_np_dtype(t) ==
    CASE t \in {"bool", "uint8", "int8"} -> 1
      [] t \in {"uint16", "int16"}       -> 2
      [] t \in {"uint32", "int32"}       -> 4
      [] t \in {"uint64", "int64"}       -> 8

IsSigned(t) == t \in {"int8", "int16", "int32", "int64"}

\* The byte length of one field: element size times arity.
FieldSize(k) == type_to_np_dtype(binary_format[k].base) * binary_format[k].length

\* The offsets of an aligned layout (np.dtype(..., align=True)): each field
\* starts at a multiple of its element size.
RECURSIVE AlignedOffset(_)
AlignedOffset(k) ==
    IF k = 1 THEN 0
    ELSE LET end == AlignedOffset(k - 1) + FieldSize(k - 1)
             a   == type_to_np_dtype(binary_format[k].base)
         IN  ((end + a - 1) \div a) * a

AlignedDtype == [k \in 1..Len(binary_format) |-> AlignedOffset(k)]

\* The offsets of a packed layout: every field starts where the previous one
\* ends.
RECURSIVE PackedOffset(_)
PackedOffset(k) ==
    IF k = 1 THEN 0 ELSE PackedOffset(k - 1) + FieldSize(k - 1)

\* np.dtype(STRUCTURED_DTYPE): a list of (name, type[, length]) tuples gives
\* a packed layout.  The table holds the byte offset of every field.
STRUCTURED_DTYPE == [k \in 1..Len(binary_format) |-> PackedOffset(k)]

FieldOffset(f) == STRUCTURED_DTYPE[FieldIndex(f)]

\* The itemsize of the structured dtype.
ItemSize ==
    STRUCTURED_DTYPE[Len(binary_format)] + FieldSize(Len(binary_format))

\* DIFF_FIELDS: the names of the fields flagged is_diff, in schema order.
DIFF_FIELDS ==
    SelectSeq([k \in 1..Len(binary_format) |-> binary_format[k].name],
              LAMBDA f : Field(f).is_diff)

DiffFieldSet == Range(DIFF_FIELDS)

\* ------------------------------------------------------------------------
\* Fixed-width integers
\* ------------------------------------------------------------------------

\* 2^w for a base type of w = 8 or 16 bits.
Modulus(t) == IF type_to_np_dtype(t) = 1 THEN 256 ELSE 65536

\* A value of an 8- or 16-bit numpy integer type after a cast or an
\* arithmetic result in that type: reduction modulo 2^w into the type's range.
Cast(t, v) ==
    LET m == Modulus(t)
    IN  IF IsSigned(t) THEN ((v + m \div 2) % m) - m \div 2 ELSE v % m

\* A subtraction that stops at the ends of the type's range.
np_subtract_saturating(t, a, b) ==
    LET m  == Modulus(t)
        lo == IF IsSigned(t) THEN -(m \div 2) ELSE 0
        hi == IF IsSigned(t) THEN m \div 2 - 1 ELSE m - 1
    IN  Min(Max(a - b, lo), hi)

\* np.subtract(a, b) on two arrays of type t: the difference in that type.
np_subtract(t, a, b) == Cast(t, a - b)

\* A wide number [hi, lo, frac] stands for hi * 2^16 + lo + frac / 100 with
\* lo in 0..65535 and frac in 0..99: a float64 amount with two decimals.
Wide(hi, lo, frac) == [hi |-> hi, lo |-> lo, frac |-> frac]

WideLess(a, b) ==
    \/ a.hi < b.hi
    \/ a.hi = b.hi /\ a.lo < b.lo
    \/ a.hi = b.hi /\ a.lo = b.lo /\ a.frac < b.frac

WideZero == Wide(0, 0, 0)

\* max_trade_count = np.iinfo(np.uint8).max
max_trade_count == 255

\* max_turnover = np.iinfo(np.uint32).max = 2^32 - 1
max_turnover == Wide(65535, 65535, 0)

\* ------------------------------------------------------------------------
\* Quantizer (parse_snapshot_df and the base fields of encode_month_snapshots)
\* ------------------------------------------------------------------------

\* A price is held in thousandths (12.345 is 12345).  A float64 result x is
\* held as its floor and the position of x relative to floor + 0.5, which is
\* all that rounding to an integer looks at.
Float(floor, part) == [floor |-> floor, part |-> part]

\* The decimal milli / 10 is a tie when its last digit is 5; the float64
\* product or quotient of such a price is the exact half for most prices and
\* the float64 next to it for the others.  The four sets list the tie prices
\* of the model whose float64 product price * 100.0, or quotient
\* price / 0.01, lies just below or just above the half.
MulBelowHalf == {285, 1005, 1015}

MulAboveHalf == {545, 1225, 16385}

DivBelowHalf == {235, 285, 1005, 1015, 1055}

DivAboveHalf == {-235, 16385}

\* The position of the decimal milli / 10 relative to its floor + 0.5, the
\* listed tie prices moved off the half.
PartOf(milli, below, above) ==
    IF milli % 10 < 5 \/ milli \in below THEN "below"
    ELSE IF milli % 10 > 5 \/ milli \in above THEN "above"
    ELSE "half"

\* price * 100.0
float_mul_100(milli) ==
    Float(milli \div 10, PartOf(milli, MulBelowHalf, MulAboveHalf))

\* price / tick with tick = 0.01
float_div_tick(milli) ==
    Float(milli \div 10, PartOf(milli, DivBelowHalf, DivAboveHalf))

\* A rounding that sends a tie away from zero.
round_half_away(x) ==
    IF x.part = "below" THEN x.floor
    ELSE IF x.part = "above" THEN x.floor + 1
    ELSE IF x.floor >= 0 THEN x.floor + 1 ELSE x.floor

\* np.round and Python's round of a float: to the nearest integer, a tie to
\* the even neighbour.
round_half_even(x) ==
    IF x.part = "below" THEN x.floor
    ELSE IF x.part = "above" THEN x.floor + 1
    ELSE IF x.floor % 2 = 0 THEN x.floor ELSE x.floor + 1

\* The rounding np.round applies.
np_round(x) == round_half_even(x)

\* np.round(price * 100.0)
np_round_x100(milli) == np_round(float_mul_100(milli))

\* price_to_tick(price, tick=0.01) = int(round(price / tick))
price_to_tick(milli) == round_half_even(float_div_tick(milli))

\* The outcome of astype(np.int16) for a float64 outside the int16 range in
\* the run at hand ("unused": no such conversion has been executed).
VARIABLE float_cast

\* astype(np.int16) of a float64 is the C conversion (npy_short)x, which C
\* leaves undefined when the truncated value does not fit the target.  The
\* builds differ: a conversion through a 32-bit integer keeps the low 16 bits
\* ("low_bits", SSE2 cvttsd2si or AArch64 fcvtzs followed by a truncation),
\* a 16-bit conversion instruction stores the integer indefinite 0x8000
\* ("indefinite", x87 fistp m16).
FloatCastOutcomes == {"low_bits", "indefinite"}

\* x.astype(np.int16) for an integral float64 x.
float_to_int16(x) ==
    IF -32768 <= x /\ x <= 32767 THEN x
    ELSE CASE float_cast = "low_bits"   -> Cast("int16", x)
           [] float_cast = "indefinite" -> -32768

\* The byte that memory handed out by np.empty holds in the run at hand.
\* np.empty does not initialise the array: what a byte holds before it is
\* assigned is whatever the allocator left there.
VARIABLE np_empty_byte

\* The contents of uninitialised memory the model tells apart.
UninitBytes == {0, 165}

\* The element of base type t read from memory whose bytes all hold g.
uninit_element(t, g) ==
    CASE t = "bool"   -> g # 0
      [] t = "uint32" -> [hi |-> g + 256 * g, lo |-> g + 256 * g]
      [] OTHER        -> Cast(t, IF type_to_np_dtype(t) = 1 THEN g ELSE g + 256 * g)

\* arr = np.empty(n, dtype=STRUCTURED_DTYPE) on memory whose bytes hold g.
np_empty(n, g) ==
    [i \in 1..n |->
        [f \in FieldNames |->
            [j \in 1..Field(f).length |-> uninit_element(Field(f).base, g)]]]

\* np.round(df[col] * 100.0).astype(np.int16)
price_tick(milli) == float_to_int16(np_round_x100(milli))

\* A trade count stored without the clip: the bare cast to uint8.
clip_trade_count_astype_only(n) == Cast("uint8", n)

\* np.clip(df[trade count].values, 0, max_trade_count).astype(np.uint8)
clip_trade_count(n) == Cast("uint8", Min(Max(n, 0), max_trade_count))

\* np.clip(df[turnover].values, 0, max_turnover).astype(np.uint32): the clip
\* is done in float64, the cast then drops the fraction.  The result is the
\* uint32 as limbs [hi, lo].
clip_turnover(v) ==
    LET c == IF WideLess(v, WideZero) THEN WideZero
             ELSE IF WideLess(max_turnover, v) THEN max_turnover ELSE v
    IN  [hi |-> c.hi, lo |-> c.lo]

\* df[direction].astype(str): a cell keeps its text, a missing cell (held as
\* the empty text) becomes "nan".
astype_str(cell) == IF cell = "" THEN "nan" ELSE cell

\* A mapping without the default: an unmapped marker is left as 255.
direction_map_no_default(d) ==
    CASE d \in {"CN_BUY", "B", "0"}  -> 0
      [] d \in {"CN_SELL", "S", "1"} -> 1
      [] d = "-"                     -> 2
      [] OTHER                       -> 255

\* The direction markers as read from the CSV; "CN_BUY" and "CN_SELL" stand
\* for the Chinese characters of 'buy' and 'sell', "nan" for a missing value
\* after astype(str).
direction_map(d) ==
    CASE d \in {"CN_BUY", "B", "0"}  -> 0
      [] d \in {"CN_SELL", "S", "1"} -> 1
      [] d = "-"                     -> 2
      [] OTHER                       -> 2

\* ------------------------------------------------------------------------
\* DataFrame rows
\* ------------------------------------------------------------------------

\* One row of the DataFrame read from a daily CSV.  time is the parsed
\* timestamp (day of month, second of day); prices are in thousandths;
\* turnover is a wide number; direction is the raw marker.
Row(day, sec, latest, tc, turnover, vol, bp, bv, ap, av, dir) ==
    [day |-> day, sec |-> sec, latest_price |-> latest, trade_count |-> tc,
     turnover |-> turnover, volume |-> vol,
     bid_price |-> bp, bid_volume |-> bv,
     ask_price |-> ap, ask_volume |-> av, direction |-> dir]

\* The rows the DataFrames of SpecCodec are built from: an ordinary morning
\* quote, the close of the same day, the next morning, and rows at and
\* beyond the limits of the storage types.
RowPool ==
    { Row(3, 34200, 12340, 7, Wide(0, 1234, 56), 100,
          <<12330, 12320, 12310, 12300, 12290>>, <<10, 20, 30, 40, 50>>,
          <<12350, 12360, 12370, 12380, 12390>>, <<5, 15, 25, 35, 45>>, "B"),
      Row(3, 54000, 12345, 300, Wide(65536, 0, 0), 65535,
          <<12335, 12320, 12310, 12300, 12290>>, <<65535, 0, 1, 2, 3>>,
          <<12355, 12360, 12370, 12380, 12390>>, <<7, 0, 0, 0, 0>>, "S"),
      Row(4, 33300, 12200, -1, Wide(-1, 65535, 50), 70000,
          <<12190, 12180, 12170, 12160, 0>>, <<10, 20, 30, 40, 0>>,
          <<12210, 12220, 12230, 12240, 12250>>, <<1, 2, 3, 4, 5>>, "CN_BUY"),
      Row(31, 86399, 327670, 255, Wide(65535, 65535, 0), 0,
          <<327660, 0, 0, 0, 0>>, <<1, 0, 0, 0, 0>>,
          <<327670, 0, 0, 0, 0>>, <<2, 0, 0, 0, 0>>, "nan"),
      Row(1, 0, -327680, 256, Wide(65535, 65535, 50), 1,
          <<-327680, 5, 15, 0, 0>>, <<0, 0, 0, 0, 0>>,
          <<-327670, 0, 0, 0, 0>>, <<0, 0, 0, 0, 0>>, "-"),
      Row(30, 35999, 400000, 0, WideZero, 65536,
          <<-327690, 0, 0, 0, 0>>, <<0, 65536, 70000, 0, 0>>,
          <<0, 0, 0, 0, 0>>, <<0, 0, 0, 0, 0>>, "CN_SELL") }

\* ------------------------------------------------------------------------
\* RecordCodec and DifferentialTransform (encode_month_snapshots)
\* ------------------------------------------------------------------------

\* The prices of the price columns of a DataFrame.
PricesOfFrame(df) ==
    UNION { {df[i].latest_price} \cup Range(df[i].bid_price) \cup Range(df[i].ask_price) :
            i \in 1..Len(df) }

\* Some price of the DataFrame rounds to a tick that int16 cannot hold.
HasOutOfRangeTick(df) ==
    \E p \in PricesOfFrame(df) :
        np_round_x100(p) < -32768 \/ np_round_x100(p) > 32767

\* datetime_col.dt: the hour, minute and second of a parsed timestamp, which
\* a row holds as its second of the day.
time_components(sec) ==
    [hour |-> sec \div 3600, minute |-> (sec % 3600) \div 60, second |-> sec % 60]

\* (hour * 3600 + minute * 60 + second).astype(np.uint16)
time_s_of(sec) ==
    LET t == time_components(sec)
    IN  Cast("uint16", t.hour * 3600 + t.minute * 60 + t.second)

\* parse_snapshot_df: the columns computed from one row.
parse_snapshot_df(df) ==
    [i \in 1..Len(df) |->
        [date_int          |-> Cast("uint8", df[i].day),
         time_s            |-> time_s_of(df[i].sec),
         latest_price_tick |-> price_tick(df[i].latest_price),
         bid_tick          |-> [j \in 1..5 |-> price_tick(df[i].bid_price[j])],
         ask_tick          |-> [j \in 1..5 |-> price_tick(df[i].ask_price[j])],
         bid_volume        |-> df[i].bid_volume,
         ask_volume        |-> df[i].ask_volume,
         trade_count       |-> df[i].trade_count,
         turnover          |-> df[i].turnover,
         volume            |-> df[i].volume,
         direction         |-> direction_map(astype_str(df[i].direction))]]

\* A sync flag set on every record.
sync_all_true(i) == TRUE

\* arr['sync'] = False; arr['sync'][0] = True  (i is the 1-based index).
sync_flag(i) == i = 1

\* A fill that leaves arr['direction'] alone.
assigned_fields_without_direction ==
    {"sync", "date", "time_s", "latest_price_tick", "trade_count", "turnover",
     "volume", "bid_price_ticks", "bid_volumes", "ask_price_ticks", "ask_volumes"}

\* The fields encode_month_snapshots assigns: arr['sync'] ... arr['direction']
\* and, for both sides, arr[f'{side}_price_ticks'] and arr[f'{side}_volumes'].
assigned_fields ==
    {"sync", "date", "time_s", "latest_price_tick", "trade_count", "turnover",
     "volume", "direction",
     "bid_price_ticks", "bid_volumes", "ask_price_ticks", "ask_volumes"}

\* The rows put into ascending order of (day, second) first.
df_sorted_values(frame) ==
    SortSeq(frame, LAMBDA a, b : a.day < b.day \/ (a.day = b.day /\ a.sec < b.sec))

\* df[...].values: the columns as the DataFrame holds them, row after row.
df_values(frame) == frame

\* The values the assignments store.  Every field holds a tuple of its
\* elements (one element for a scalar).
FillValues(df) ==
    LET p == parse_snapshot_df(df_values(df))
    IN  [i \in 1..Len(df) |->
            [sync              |-> << sync_flag(i) >>,
             date              |-> << p[i].date_int >>,
             time_s            |-> << p[i].time_s >>,
             latest_price_tick |-> << p[i].latest_price_tick >>,
             trade_count       |-> << clip_trade_count(p[i].trade_count) >>,
             turnover          |-> << clip_turnover(p[i].turnover) >>,
             volume            |-> << Cast("uint16", p[i].volume) >>,
             bid_price_ticks   |-> p[i].bid_tick,
             bid_volumes       |-> [j \in 1..5 |-> Cast("uint16", p[i].bid_volume[j])],
             ask_price_ticks   |-> p[i].ask_tick,
             ask_volumes       |-> [j \in 1..5 |-> Cast("uint16", p[i].ask_volume[j])],
             direction         |-> << p[i].direction >>]]

\* The structured array after the fill, before the differential pass: the
\* array np.empty returned, the assigned fields overwritten.
FillArrayFrom(df, empty) ==
    LET values == FillValues(df)
    IN  [i \in 1..Len(df) |->
            [f \in FieldNames |->
                IF f \in assigned_fields THEN values[i][f] ELSE empty[i][f]]]

FillArray(df) == FillArrayFrom(df, np_empty(Len(df), np_empty_byte))

\* A differential pass run as a forward loop over the array itself, record i
\* reading the already differenced record i - 1.
RECURSIVE DiffFieldAliased(_, _, _)
DiffFieldAliased(a, f, i) ==
    IF i = 1 THEN a[1][f]
    ELSE LET prev == DiffFieldAliased(a, f, i - 1)
         IN  [j \in 1..Len(a[i][f]) |->
                 np_subtract(Field(f).base, a[i][f][j], prev[j])]

DiffFieldInPlaceLoop(a, f) ==
    [i \in 1..Len(a) |-> DiffFieldAliased(a, f, i)]

\* np.subtract(arr[f][1:], arr[f][:-1], out=arr[f][1:]): numpy buffers
\* overlapping operands, so every record is differenced against the value its
\* predecessor had before the call.  The result is the column of field f.
DiffField(a, f) ==
    LET t == Field(f).base
    IN  [i \in 1..Len(a) |->
            IF i = 1 THEN a[1][f]
            ELSE [j \in 1..Len(a[i][f]) |->
                     np_subtract(t, a[i][f][j], a[i - 1][f][j])]]

\* DIFF_FIELDS with the volume flagged differential as well.
DiffFieldsWithVolume == DiffFieldSet \cup {"volume"}

\* The fields the loop 'for field in DIFF_FIELDS' visits.
DiffLoopFields == DiffFieldSet

\* The whole differential pass: the fields of the loop are replaced by their
\* differenced columns, the others are left alone.
DiffPass(a) ==
    LET col == [f \in DiffLoopFields |-> DiffField(a, f)]
    IN  [i \in 1..Len(a) |->
            [f \in FieldNames |->
                IF f \in DiffLoopFields THEN col[f][i] ELSE a[i][f]]]

\* ------------------------------------------------------------------------
\* The raw memory image (arr.tobytes())
\* ------------------------------------------------------------------------

\* Total record size: 54 bytes (the comment above binary_format; spec.md 3).
RecordSize == 54

\* The bytes of one element, least significant first; a signed value is
\* stored in two's complement.
ElementBytesLE(t, v) ==
    CASE t = "bool"   -> << IF v THEN 1 ELSE 0 >>
      [] t = "uint32" -> << v.lo % 256, v.lo \div 256, v.hi % 256, v.hi \div 256 >>
      [] OTHER        ->
            LET u == v % Modulus(t)
            IN  IF type_to_np_dtype(t) = 1 THEN << u >> ELSE << u % 256, u \div 256 >>

\* numpy's types are native-endian: the element as the host stores it.
ElementBytes(t, v, order) ==
    IF order = "little" THEN ElementBytesLE(t, v) ELSE Reverse(ElementBytesLE(t, v))

\* The bytes of field k of a record: its elements back to back.
FieldBytes(rec, k, order) ==
    LET fd == binary_format[k]
    IN  Flatten([j \in 1..fd.length |-> ElementBytes(fd.base, rec[fd.name][j], order)])

\* For every byte of a record, the field that covers it (0: none, a padding
\* byte, which a packed layout does not have).
ByteOwner ==
    [p \in 1..ItemSize |->
        LET ks == { k \in 1..Len(binary_format) :
                       /\ STRUCTURED_DTYPE[k] < p
                       /\ p <= STRUCTURED_DTYPE[k] + FieldSize(k) }
        IN  IF ks = {} THEN 0 ELSE CHOOSE k \in ks : TRUE]

\* The image of one record: ItemSize bytes, every field at its offset in the
\* structured dtype.  A padding byte is never assigned and holds what the
\* memory held, g.
RecordImageOver(rec, order, g) ==
    LET fb == [k \in 1..Len(binary_format) |-> FieldBytes(rec, k, order)]
    IN  [p \in 1..ItemSize |->
            IF ByteOwner[p] = 0 THEN g
            ELSE fb[ByteOwner[p]][p - STRUCTURED_DTYPE[ByteOwner[p]]]]

RecordImage(rec, order) == RecordImageOver(rec, order, np_empty_byte)

\* arr.tobytes(): the record images back to back.
tobytes(a, order) == Flatten([i \in 1..Len(a) |-> RecordImage(a[i], order)])

\* ------------------------------------------------------------------------
\* Compressor (zlib.compress(raw_bytes, level=6)) and its inverse
\* ------------------------------------------------------------------------

\* The sum of g[lo..hi], by halving.
RECURSIVE SumRange(_, _, _)
SumRange(g, lo, hi) ==
    IF lo > hi THEN 0
    ELSE IF lo = hi THEN g[lo]
    ELSE LET mid == (lo + hi) \div 2
         IN  SumRange(g, lo, mid) + SumRange(g, mid + 1, hi)

\* The Adler-32 checksum of RFC 1950 as its two 16-bit halves <<b, a>>:
\* a is 1 plus the sum of the bytes, b the sum of the successive values of a,
\* both modulo 65521.
Adler32(data) ==
    LET n == Len(data)
        a == (1 + SumRange(data, 1, n)) % 65521
        b == (n + SumRange([i \in 1..n |-> (n + 1 - i) * data[i]], 1, n)) % 65521
    IN  << b, a >>

\* zlib.compress is library code.  Its output is a zlib stream (RFC 1950): the
\* two header bytes of level 6, a deflate body (RFC 1951) and the big-endian
\* Adler-32 of the data.  The body is held as one final stored block (LEN,
\* its complement, the data); the library emits a Huffman-coded body that
\* inflates to the same bytes.  A batch image is far below the 65535 bytes
\* one stored block can hold.
zlib_compress(data) ==
    LET n  == Len(data)
        ck == Adler32(data)
    IN  << 120, 156 >>
        \o << 1, n % 256, n \div 256, 255 - (n % 256), 255 - (n \div 256) >>
        \o data
        \o << ck[1] \div 256, ck[1] % 256, ck[2] \div 256, ck[2] % 256 >>

\* Inflating a zlib stream: [ok, data].  A byte string that is not a complete
\* stream (header, final block, matching lengths and checksum) is refused,
\* and so is the empty string, which holds no header.
zlib_decompress(z) ==
    LET bad == [ok |-> FALSE, data |-> <<>>]
    IN  IF Len(z) < 11 THEN bad
        ELSE LET n    == z[4] + 256 * z[5]
                 data == SubSeq(z, 8, 7 + n)
                 ck   == Adler32(data)
             IN  IF /\ z[1] = 120
                    /\ (256 * z[1] + z[2]) % 31 = 0
                    /\ z[3] = 1
                    /\ z[6] = 255 - z[4]
                    /\ z[7] = 255 - z[5]
                    /\ Len(z) = n + 11
                    /\ SubSeq(z, n + 8, n + 11)
                         = << ck[1] \div 256, ck[1] % 256, ck[2] \div 256, ck[2] % 256 >>
                 THEN [ok |-> TRUE, data |-> data]
                 ELSE bad

\* encode_month_snapshots as a whole: the compressed bytes of a DataFrame.
encode_month_snapshots(frame, order) ==
    IF Len(frame) = 0 THEN <<>>
    ELSE zlib_compress(tobytes(DiffPass(FillArray(frame)), order))

\* ------------------------------------------------------------------------
\* Decoder (spec.md 4.3, 4.4, 4.6, 4.7; the consumer of the artifacts)
\* ------------------------------------------------------------------------

\* The byte offset of field k in the documented layout: schema order, no
\* padding.
RECURSIVE DecoderOffset(_)
DecoderOffset(k) ==
    IF k = 1 THEN 0 ELSE DecoderOffset(k - 1) + FieldSize(k - 1)

DecoderLayout == [k \in 1..Len(binary_format) |-> DecoderOffset(k)]

\* One element read back from its bytes in host order.
ElementFromBytes(t, bytes, order) ==
    LET le == IF order = "little" THEN bytes ELSE Reverse(bytes)
    IN  CASE t = "bool"   -> le[1] # 0
          [] t = "uint32" -> [hi |-> le[3] + 256 * le[4], lo |-> le[1] + 256 * le[2]]
          [] OTHER        ->
                Cast(t, IF Len(le) = 1 THEN le[1] ELSE le[1] + 256 * le[2])

\* decode_record: a 54-byte record image back to its fields.
decode_record(bytes, order) ==
    [f \in FieldNames |->
        LET k  == FieldIndex(f)
            w  == type_to_np_dtype(binary_format[k].base)
            o  == DecoderLayout[k]
        IN  [j \in 1..binary_format[k].length |->
                ElementFromBytes(binary_format[k].base,
                                 SubSeq(bytes, o + (j - 1) * w + 1, o + j * w),
                                 order)]]

\* reverse: the running sum of every differential field, in the field's own
\* type, in increasing index order; record i adds the reconstructed record
\* i - 1.
RECURSIVE reverse_upto(_, _)
reverse_upto(stream, i) ==
    IF i = 1 THEN stream[1]
    ELSE LET prev == reverse_upto(stream, i - 1)
         IN  [f \in FieldNames |->
                 IF f \in DiffFieldSet
                 THEN [j \in 1..Len(stream[i][f]) |->
                          Cast(Field(f).base, stream[i][f][j] + prev[f][j])]
                 ELSE stream[i][f]]

reverse(stream) == [i \in 1..Len(stream) |-> reverse_upto(stream, i)]

\* The decoder: inflate, require exactly record_count * 54 bytes, slice,
\* reverse the differential fields.  Any mismatch is a hard failure.
decode(record_count, bytes, order) ==
    LET inf == zlib_decompress(bytes)
    IN  IF ~inf.ok \/ Len(inf.data) # record_count * RecordSize
        THEN [ok |-> FALSE, records |-> <<>>]
        ELSE [ok |-> TRUE,
              records |-> reverse([i \in 1..record_count |->
                  decode_record(SubSeq(inf.data, (i - 1) * RecordSize + 1,
                                       i * RecordSize), order)])]

\* ------------------------------------------------------------------------
\* Strings: a str is the tuple of its characters
\* ------------------------------------------------------------------------

DigitChars == << "0", "1", "2", "3", "4", "5", "6", "7", "8", "9" >>

UpperChars == << "A", "B", "C", "D", "E", "F", "G", "H", "I", "J", "K", "L", "M",
                 "N", "O", "P", "Q", "R", "S", "T", "U", "V", "W", "X", "Y", "Z" >>

LowerChars == << "a", "b", "c", "d", "e", "f", "g", "h", "i", "j", "k", "l", "m",
                 "n", "o", "p", "q", "r", "s", "t", "u", "v", "w", "x", "y", "z" >>

IndexIn(c, alphabet) == CHOOSE i \in 1..Len(alphabet) : alphabet[i] = c

IsDigit(c) == c \in Range(DigitChars)

IsUpper(c) == c \in Range(UpperChars)

IsLower(c) == c \in Range(LowerChars)

\* The code point of a character (ord).
Ord(c) ==
    CASE IsDigit(c) -> 47 + IndexIn(c, DigitChars)
      [] IsUpper(c) -> 64 + IndexIn(c, UpperChars)
      [] IsLower(c) -> 96 + IndexIn(c, LowerChars)
      [] c = "."    -> 46
      [] c = "/"    -> 47
      [] c = "_"    -> 95

\* str.lower()
str_lower(s) ==
    [i \in 1..Len(s) |->
        IF IsUpper(s[i]) THEN LowerChars[IndexIn(s[i], UpperChars)] ELSE s[i]]

\* a < b for two str: by code point at the first difference, a proper prefix
\* being the smaller.
StrLess(a, b) ==
    \E k \in 1..(Len(b)) :
        /\ \A i \in 1..(k - 1) : i <= Len(a) /\ a[i] = b[i]
        /\ \/ k = Len(a) + 1
           \/ k <= Len(a) /\ Ord(a[k]) < Ord(b[k])

\* str.endswith
endswith(s, suffix) ==
    /\ Len(s) >= Len(suffix)
    /\ SubSeq(s, Len(s) - Len(suffix) + 1, Len(s)) = suffix

\* str(n) of a count n >= 0.
RECURSIVE Decimal(_)
Decimal(n) ==
    IF n < 10 THEN << DigitChars[n + 1] >>
    ELSE Decimal(n \div 10) \o << DigitChars[(n % 10) + 1] >>

\* sorted(files) of a list of distinct str: ascending by StrLess.
RECURSIVE sorted(_)
sorted(files) ==
    IF files = <<>> THEN <<>>
    ELSE LET m == CHOOSE i \in 1..Len(files) :
                      \A j \in 1..Len(files) : j = i \/ StrLess(files[i], files[j])
         IN  << files[m] >>
             \o sorted([j \in 1..(Len(files) - 1) |->
                           IF j < m THEN files[j] ELSE files[j + 1]])

\* ------------------------------------------------------------------------
\* The month folder
\* ------------------------------------------------------------------------

\* The ways a daily CSV can be unfit for encoding:
\*   "time_data"   a time cell pd.to_datetime rejects with a ValueError whose
\*                 message holds 'time data' (a cell not matching the format)
\*   "time_other"  a time cell rejected with a ValueError of another message
\*                 (unknown string format, out of bounds timestamp)
\*   "no_turnover" the turnover column is absent
\*   "no_bid5"     the price column of the fifth bid level is absent
Defects == {"time_data", "time_other", "no_turnover", "no_bid5"}

\* A file of the extracted month folder: the daily directory it lies in
\* (empty: the month folder itself), its name, the number of data rows of
\* the CSV (0: a header only) and what is wrong with it.
DefectFile(dir, name, nrows, defect) ==
    [dir |-> dir, name |-> name, nrows |-> nrows, defect |-> defect]

\* A file fit for encoding.
File(dir, name, nrows) == DefectFile(dir, name, nrows, "none")

\* The files month folders are built from.
FilePool ==
    { File(<< "2", "0", "2", "5", "0", "6", "0", "3" >>,
           << "s", "h", "6", "0", "0", "0", "0", "0", "_", "2", "0", "2", "5", "0", "6", "0", "3", ".", "c", "s", "v" >>, 2),
      File(<< "2", "0", "2", "5", "0", "6", "0", "4" >>,
           << "S", "H", "6", "0", "0", "0", "0", "0", "_", "2", "0", "2", "5", "0", "6", "0", "4", ".", "c", "s", "v" >>, 3),
      File(<<  >>,
           << "s", "h", "6", "0", "0", "0", "0", "0", "_", "2", "0", "2", "5", "0", "6", "0", "3", ".", "c", "s", "v" >>, 1),
      File(<<  >>,
           << "S", "H", "6", "0", "0", "0", "0", "0", "_", "2", "0", "2", "5", "0", "6", "0", "4", ".", "c", "s", "v" >>, 2),
      File(<<  >>,
           << "s", "z", "0", "0", "0", "0", "0", "1", "_", "2", "0", "2", "5", "0", "6", "0", "3", ".", "c", "s", "v" >>, 0),
      File(<< "2", "0", "2", "5", "0", "6", "0", "3" >>,
           << "s", "h", "6", "0", "0", "0", "0", "_", "2", "0", "2", "5", "0", "6", "0", "3", ".", "c", "s", "v" >>, 1),
      File(<<  >>,
           << "s", "h", "6", "0", "0", "0", "0", "0", "_", "2", "0", "2", "5", "0", "6", "0", "3", ".", "c", "s", "v", ".", "b", "a", "k", ".", "c", "s", "v" >>, 1),
      File(<< "2", "0", "2", "5", "0", "6", "0", "4" >>,
           << "s", "z", "0", "0", "0", "0", "0", "1", "_", "2", "0", "2", "5", "0", "6", "0", "4", ".", "C", "S", "V" >>, 1),
      File(<< "2", "0", "2", "5", "0", "6", "0", "4" >>,
           << "n", "o", "t", "e", "s", ".", "t", "x", "t" >>, 0) }

\* The files the month folders of SpecVariants are built from: two days of
\* sh600000, and for sh600001 a day that encodes, a day whose time column
\* fails with a 'time data' error, one that fails with another message and
\* one without the price column of bid level 5.
VariantFilePool ==
    { File(<< "2", "0", "2", "5", "0", "6", "0", "3" >>,
           << "s", "h", "6", "0", "0", "0", "0", "0", "_", "2", "0", "2", "5", "0", "6", "0", "3", ".", "c", "s", "v" >>, 2),
      File(<< "2", "0", "2", "5", "0", "6", "0", "4" >>,
           << "s", "h", "6", "0", "0", "0", "0", "0", "_", "2", "0", "2", "5", "0", "6", "0", "4", ".", "c", "s", "v" >>, 1),
      File(<< "2", "0", "2", "5", "0", "6", "0", "3" >>,
           << "s", "h", "6", "0", "0", "0", "0", "1", "_", "2", "0", "2", "5", "0", "6", "0", "3", ".", "c", "s", "v" >>, 1),
      DefectFile(<< "2", "0", "2", "5", "0", "6", "0", "4" >>,
           << "s", "h", "6", "0", "0", "0", "0", "1", "_", "2", "0", "2", "5", "0", "6", "0", "4", ".", "c", "s", "v" >>, 1,
           "time_data"),
      DefectFile(<< "2", "0", "2", "5", "0", "6", "0", "5" >>,
           << "s", "h", "6", "0", "0", "0", "0", "1", "_", "2", "0", "2", "5", "0", "6", "0", "5", ".", "c", "s", "v" >>, 1,
           "time_other"),
      DefectFile(<< "2", "0", "2", "5", "0", "6", "0", "6" >>,
           << "s", "h", "6", "0", "0", "0", "0", "1", "_", "2", "0", "2", "5", "0", "6", "0", "6", ".", "c", "s", "v" >>, 1,
           "no_bid5") }

\* Largest number of files in the month folder.
MaxFiles == 3

\* os.path.relpath(os.path.join(root, filename), month_folder_path)
rel_path(f) == IF f.dir = <<>> THEN f.name ELSE f.dir \o << "/" >> \o f.name

\* The day of month a daily file is for: the last two digits of the date in
\* its name (characters 16 and 17 of xxNNNNNN_YYYYMMDD).
FileDay(f) ==
    10 * (IndexIn(f.name[16], DigitChars) - 1) + IndexIn(f.name[17], DigitChars) - 1

\* The rows pd.read_csv returns for a daily file: nrows quotes of that day,
\* three seconds apart, in file order.
read_csv(f) ==
    [j \in 1..f.nrows |->
        Row(FileDay(f), 34200 + 3 * j, 12000 + 100 * FileDay(f) + 10 * j,
            j, Wide(0, 1000 * j, 0), 100 * j,
            [l \in 1..5 |-> 12000 + 100 * FileDay(f) + 10 * j - 10 * l],
            [l \in 1..5 |-> 10 * l + j],
            [l \in 1..5 |-> 12000 + 100 * FileDay(f) + 10 * j + 10 * l],
            [l \in 1..5 |-> 20 * l + j],
            IF j % 2 = 1 THEN "B" ELSE "S")]

\* ------------------------------------------------------------------------
\* The month archives of a year folder
\* ------------------------------------------------------------------------

\* A zip archive of a year folder: the stem of its name, the files it holds
\* below its top-level directory, and whether it is damaged (zipfile cannot
\* open it).
Zip(stem, files, corrupt) == [stem |-> stem, files |-> files, corrupt |-> corrupt]

SH600000 == << "s", "h", "6", "0", "0", "0", "0", "0" >>

SZ000001 == << "s", "z", "0", "0", "0", "0", "0", "1" >>

\* The daily file <symbol>_<yyyymmdd>.csv in the daily directory <yyyymmdd>.
DailyFile(symbol, yyyymmdd, nrows, defect) ==
    DefectFile(yyyymmdd, symbol \o << "_" >> \o yyyymmdd \o << ".", "c", "s", "v" >>,
               nrows, defect)

\* The archives year folders are built from: June in two editions (the
\* later one with more rows), an archive named 2025_06.zip, July with each of
\* the defects in the file of one of its two symbols, and a damaged August.
ZipPool ==
    { Zip(<< "2", "0", "2", "5", "0", "6" >>,
          { DailyFile(SH600000, << "2", "0", "2", "5", "0", "6", "0", "3" >>, 2, "none"),
            DailyFile(SZ000001, << "2", "0", "2", "5", "0", "6", "0", "3" >>, 1, "none") },
          FALSE),
      Zip(<< "2", "0", "2", "5", "0", "6" >>,
          { DailyFile(SH600000, << "2", "0", "2", "5", "0", "6", "0", "3" >>, 3, "none") },
          FALSE),
      Zip(<< "2", "0", "2", "5", "_", "0", "6" >>,
          { DailyFile(SH600000, << "2", "0", "2", "5", "0", "6", "0", "4" >>, 1, "none") },
          FALSE),
      Zip(<< "2", "0", "2", "5", "0", "8" >>, {}, TRUE) }
    \cup
    { Zip(<< "2", "0", "2", "5", "0", "7" >>,
          { DailyFile(SH600000, << "2", "0", "2", "5", "0", "7", "0", "1" >>, 1, defect),
            DailyFile(SZ000001, << "2", "0", "2", "5", "0", "7", "0", "1" >>, 1, "none") },
          FALSE) : defect \in Defects }

\* Largest number of archives in a year folder.
MaxZips == 2

\* The year folders: up to MaxZips archives, no two of one name.
YearFolderPool ==
    { zs \in SUBSET ZipPool :
        /\ zs # {}
        /\ Cardinality(zs) <= MaxZips
        /\ \A a, b \in zs : a.stem = b.stem => a = b }

\* The year folders of a later pass: one archive each.
LaterFolderPool == { zs \in YearFolderPool : Cardinality(zs) = 1 }

\* decompress_zip_file: "201701" becomes "2017_01", a stem of another length
\* is taken as it is.
month_name_of(zip_stem) ==
    IF Len(zip_stem) = 6
    THEN SubSeq(zip_stem, 1, 4) \o << "_" >> \o SubSeq(zip_stem, 5, 6)
    ELSE zip_stem

\* zip_files.sort(): the archives in the order of their names.
sorted_zips(zs) ==
    LET names == sorted([i \in 1..Cardinality(zs) |->
                            (CHOOSE f \in [1..Cardinality(zs) -> zs] :
                                 \A a, b \in 1..Cardinality(zs) : a # b => f[a] # f[b])[i].stem])
    IN  [i \in 1..Len(names) |-> CHOOSE z \in zs : z.stem = names[i]]

\* The files decompress_zip_file leaves in the temp directory: those already
\* there, and the archive's files under its month directory, a file of the
\* same path replaced.
extract(temp_files, z) ==
    LET m == month_name_of(z.stem)
    IN  { e \in temp_files :
            ~(e.month = m /\ \E f \in z.files : rel_path(f) = rel_path(e.file)) }
        \cup { [month |-> m, file |-> f] : f \in z.files }

\* ------------------------------------------------------------------------
\* BatchAssembler: grouping, sorting, concatenating, naming
\* ------------------------------------------------------------------------

\* The None of extract_symbol_from_filename; like None it is falsy.
None == <<>>

\* A symbol taken from the name as it is written, in the letter case of the
\* file name.
extract_symbol_keep_case(filename) ==
    IF /\ Len(filename) >= 21
       /\ \A i \in 1..2 : IsLower(filename[i]) \/ IsUpper(filename[i])
       /\ \A i \in 3..8 : IsDigit(filename[i])
       /\ filename[9] = "_"
       /\ \A i \in 10..17 : IsDigit(filename[i])
       /\ filename[18] = "."
       /\ str_lower(SubSeq(filename, 19, 21)) = << "c", "s", "v" >>
    THEN SubSeq(filename, 1, 8)
    ELSE None

\* re.match(r'([a-z]{2}\d{6})_\d{8}\.csv', filename, re.IGNORECASE): the
\* pattern is matched at the start of the name and need not reach its end;
\* IGNORECASE covers the letters of the prefix and of 'csv' alike.  Returns
\* group(1).lower() or None.
extract_symbol_from_filename(filename) ==
    IF /\ Len(filename) >= 21
       /\ \A i \in 1..2 : IsLower(filename[i]) \/ IsUpper(filename[i])
       /\ \A i \in 3..8 : IsDigit(filename[i])
       /\ filename[9] = "_"
       /\ \A i \in 10..17 : IsDigit(filename[i])
       /\ filename[18] = "."
       /\ str_lower(SubSeq(filename, 19, 21)) = << "c", "s", "v" >>
    THEN str_lower(SubSeq(filename, 1, 8))
    ELSE None

\* The orders in which os.walk can yield the files of a folder: top-down, so
\* the month folder's own files come first and the files of one directory
\* come together; within that the order is the file system's.
WalkOrders(fs) ==
    { w \in [1..Cardinality(fs) -> fs] :
        /\ \A i, j \in 1..Cardinality(fs) : i # j => w[i] # w[j]
        /\ \A i, j \in 1..Cardinality(fs) :
               i < j /\ w[j].dir = <<>> => w[i].dir = <<>>
        /\ \A i, j, k \in 1..Cardinality(fs) :
               i < j /\ j < k /\ w[i].dir = w[k].dir => w[j].dir = w[i].dir }

\* The symbol a walked file is filed under, None when it is skipped.
SymbolOfFile(f) ==
    IF ~endswith(f.name, << ".", "c", "s", "v" >>) THEN None
    ELSE extract_symbol_from_filename(f.name)

\* group_files_by_symbol for a walk: symbol -> list of relative paths in
\* walk order.  Only symbols with a file are keys (a defaultdict).
group_files_by_symbol(walk) ==
    LET syms == { SymbolOfFile(walk[i]) : i \in 1..Len(walk) } \ { None }
    IN  [sym \in syms |->
            LET mine == SelectSeq(walk, LAMBDA f : SymbolOfFile(f) = sym)
            IN  [i \in 1..Len(mine) |-> rel_path(mine[i])]]

\* The entries of a list that are not None, each once, in the order of their
\* first occurrence.
RECURSIVE first_seen(_)
first_seen(keys) ==
    IF keys = <<>> THEN <<>>
    ELSE LET init == first_seen(SubSeq(keys, 1, Len(keys) - 1))
             key  == keys[Len(keys)]
         IN  IF key = None \/ key \in Range(init) THEN init ELSE Append(init, key)

\* The order of symbol_files.items(): a dict keeps its keys in the order of
\* their insertion, which is that of the symbols' first file in the walk.
symbol_order(walk) == first_seen([i \in 1..Len(walk) |-> SymbolOfFile(walk[i])])

\* An artifact named after the exchange prefix of the symbol only.
artifact_name_by_exchange(symbol, record_count) ==
    SubSeq(symbol, 1, 2) \o << "_" >> \o Decimal(record_count) \o << ".", "b", "i", "n" >>

\* f"{symbol}_{record_count}.bin"
artifact_name(symbol, record_count) ==
    symbol \o << "_" >> \o Decimal(record_count) \o << ".", "b", "i", "n" >>

\* The columns of the CSV files, each named << side, level, kind >>: the six
\* columns parse_snapshot_df requires (no side, level 0), and a price and a
\* volume column for each of the five bid and ask levels.
required_columns ==
    { << "", 0, kind >> : kind \in {"time", "latest_price", "direction",
                                    "trade_count", "turnover", "volume"} }

LevelColumns ==
    { << side, idx, kind >> : side \in {"bid", "ask"}, idx \in 1..5,
                              kind \in {"price", "volume"} }

\* The columns pd.read_csv finds in a file.
csv_columns(f) ==
    (required_columns \cup LevelColumns)
        \ (CASE f.defect = "no_turnover" -> {<< "", 0, "turnover" >>}
             [] f.defect = "no_bid5"     -> {<< "bid", 5, "price" >>}
             [] OTHER                    -> {})

\* The columns of pd.concat(month_dataframes): every column some frame has.
concat_columns(fl) == UNION { csv_columns(fl[i]) : i \in 1..Len(fl) }

\* The ValueError pd.to_datetime raises on the time column of the
\* concatenated frame: that of the first row it cannot parse ("none": every
\* row parses).
to_datetime_error(fl) ==
    LET bad == { i \in 1..Len(fl) :
                    fl[i].nrows > 0 /\ fl[i].defect \in {"time_data", "time_other"} }
    IN  IF bad = {} THEN "none"
        ELSE fl[CHOOSE i \in bad : \A j \in bad : i <= j].defect

\* How the call encode_month_snapshots(combined_df) ends for the frame
\* concatenated from the files fl: the exception that leaves it ("none": it
\* returns), the statement that raises it, and whether the price columns had
\* been quantised by then.
\*   n == 0            returns b'' before anything is looked at
\*   parse_snapshot_df asserts the required columns, parses the time column,
\*                     quantises the prices of the levels it finds
\*   the fill          reads the tick and volume column of every level
encode_outcome(fl) ==
    LET n       == SumSeq([i \in 1..Len(fl) |-> fl[i].nrows])
        columns == concat_columns(fl)
        levels  == { << side, idx >> \in {"bid", "ask"} \X (1..5) :
                        /\ << side, idx, "price" >> \in columns
                        /\ << side, idx, "volume" >> \in columns }
    IN  IF n = 0 THEN
            [error |-> "none", message |-> "", raised_at |-> "none", quantised |-> FALSE]
        ELSE IF required_columns \ columns # {} THEN
            [error |-> "AssertionError", message |-> "Missing required columns",
             raised_at |-> "validation", quantised |-> FALSE]
        ELSE IF to_datetime_error(fl) = "time_data" THEN
            [error |-> "ValueError", message |-> "time data",
             raised_at |-> "to_datetime", quantised |-> FALSE]
        ELSE IF to_datetime_error(fl) = "time_other" THEN
            [error |-> "ValueError", message |-> "Unknown datetime string format",
             raised_at |-> "to_datetime", quantised |-> FALSE]
        ELSE IF levels # {"bid", "ask"} \X (1..5) THEN
            [error |-> "KeyError", message |-> "not in index",
             raised_at |-> "fill", quantised |-> TRUE]
        ELSE
            [error |-> "none", message |-> "", raised_at |-> "none", quantised |-> TRUE]

\* The except clause of process_symbol_files: a ValueError whose message
\* holds 'time data' is turned into the SKIPPED marker, everything else is
\* raised again.
except_time_data(outcome) ==
    outcome.error = "ValueError" /\ outcome.message = "time data"

\* A handler that takes every ValueError.
except_value_error(outcome) == outcome.error = "ValueError"

\* The variant without a try statement catches nothing.
except_nothing(outcome) == FALSE

\* Whether the caller's handler takes the exception of an encoding that
\* raised.
caught(handler, outcome) ==
    IF handler = "except ValueError" THEN except_time_data(outcome)
    ELSE except_nothing(outcome)

\* f"{symbol} (SKIPPED)"
skipped_marker(symbol) ==
    symbol \o << " ", "(", "S", "K", "I", "P", "P", "E", "D", ")" >>

\* A concatenation that drops repeated rows.
RECURSIVE concat_drop_duplicates(_)
concat_drop_duplicates(frames) ==
    IF frames = <<>> THEN <<>>
    ELSE LET init == concat_drop_duplicates(SubSeq(frames, 1, Len(frames) - 1))
             last == frames[Len(frames)]
         IN  init \o SelectSeq(last, LAMBDA r : r \notin Range(init))

\* pd.concat(month_dataframes, ignore_index=True): the frames' rows in list
\* order, every row kept.
pd_concat(frames) == Flatten(frames)

\* The value of a string of decimal digits.
RECURSIVE DecimalValue(_)
DecimalValue(digits) ==
    IF digits = <<>> THEN 0
    ELSE 10 * DecimalValue(SubSeq(digits, 1, Len(digits) - 1))
         + IndexIn(digits[Len(digits)], DigitChars) - 1

\* The symbol and the record count an artifact name <symbol>_<count>.bin
\* carries: the text before and after its last underscore.
parse_artifact_name(name) ==
    LET u == CHOOSE i \in 1..Len(name) :
                 name[i] = "_" /\ \A j \in (i + 1)..Len(name) : name[j] # "_"
    IN  [symbol       |-> SubSeq(name, 1, u - 1),
         record_count |-> DecimalValue(SubSeq(name, u + 1, Len(name) - 4)),
         suffix       |-> SubSeq(name, Len(name) - 3, Len(name))]

\* ------------------------------------------------------------------------
\* State
\* ------------------------------------------------------------------------

VARIABLES
    byteorder,         \* the host's byte order (sys.byteorder)
    pc,                \* where the run of encode_month_snapshots stands
    df,                \* the DataFrame handed to encode_month_snapshots
    arr,               \* the structured array
    batch,             \* history: arr as filled, before the differential pass
    raw_bytes,         \* arr.tobytes()
    compressed_bytes,  \* the value encode_month_snapshots returns
    decoded,           \* what the decoder makes of compressed_bytes
    folder,            \* the files of the extracted month folder
    phase,             \* where the run over the month folder stands
    symbol_files,      \* the result of group_files_by_symbol
    units,             \* per symbol: the state and locals of its unit of work
    disk,              \* the files written: [dir, name, data]
    month_name,        \* the month being processed
    process_args,      \* the symbols handed to the pool, in imap order
    year_folders,      \* the year folders of the passes still to come
    zip_files,         \* the archives of the year being processed
    zip_status,        \* per archive: "waiting", "done" or "raised"
    temp_processing,   \* the local temp directory: [exists, files]
    months,            \* the decompress_results still to be processed
    q_price,           \* SpecQuantizer: the price handed to the quantisers
    q_direction,       \* SpecQuantizer: the direction cell read from the CSV
    q_done,            \* SpecQuantizer: the conversions applied so far
    q_tick,            \* the tick of q_price as parse_snapshot_df computes it
    q_helper_tick,     \* price_to_tick(q_price)
    q_code             \* the direction code of q_direction

codec_vars == << pc, df, arr, batch, raw_bytes, compressed_bytes, decoded >>

month_vars == << folder, phase, symbol_files, units, disk, month_name, process_args >>

year_vars == << year_folders, zip_files, zip_status, temp_processing, months >>

quant_vars == << q_price, q_direction, q_done, q_tick, q_helper_tick, q_code >>

\* ------------------------------------------------------------------------
\* FieldSchema: the module-level code that builds the layouts from a schema
\* ------------------------------------------------------------------------

VARIABLES
    fmt_dict,           \* the schema the module is imported with
    module,             \* "importing", "ready", or the exception of the import
    record_struct_fmt,  \* get_struct_fmt(fmt_dict)
    structured_dtype,   \* the list STRUCTURED_DTYPE built from fmt_dict
    schema_encode       \* how the first encode call with the schema ended

schema_vars == << fmt_dict, module, record_struct_fmt, structured_dtype, schema_encode >>

\* ------------------------------------------------------------------------
\* FileRepair: the state of process_with_pool and of its workers
\* ------------------------------------------------------------------------

VARIABLES
    repair_func,    \* the worker: "fix_single_archive" or "convert_single_zip"
    repair_items,   \* the list of items handed to process_with_pool
    worker_pc,      \* per item: where its worker stands
    future,         \* per item: what its future holds once the worker is done
    temp_dirs,      \* the directories that exist under output/fix_temp
    success_count,  \* process_with_pool's counter
    failed_items,   \* process_with_pool's list of (name, message)
    reported,       \* the items whose result the loop has taken, in order
    pool_state      \* "idle", "running", "unwinding", "returned", "raised"

repair_vars == << repair_func, repair_items, worker_pc, future, temp_dirs,
                  success_count, failed_items, reported, pool_state >>

vars == << repair_vars, schema_vars, byteorder, float_cast, np_empty_byte, codec_vars, month_vars, quant_vars, year_vars >>

\* type_to_struct_fmt: the struct character of every base type it knows.
type_to_struct_fmt ==
    [bool  |-> "?", uint8  |-> "B", int8  |-> "b", uint16 |-> "H", int16 |-> "h",
     uint32 |-> "I", int32 |-> "i", uint64 |-> "Q", int64 |-> "q"]

\* The keys of the mapping inside type_to_np_dtype.
np_mapping_keys ==
    {"bool", "uint8", "int8", "uint16", "int16", "uint32", "int32", "uint64",
     "int64", "float32", "float64"}

\* get_struct_fmt(fmt_dict): the struct character of every field, repeated
\* length times for 'type[length]'.  A declared type 'int16[5]' is held as
\* base "int16", length 5, a type without brackets as length 1.
get_struct_fmt(fd) ==
    Flatten([k \in 1..Len(fd) |->
                [j \in 1..fd[k].length |-> type_to_struct_fmt[fd[k].base]]])

\* The standard size of a struct character.
struct_item_size(c) ==
    CASE c \in {"?", "B", "b"} -> 1
      [] c \in {"H", "h"}      -> 2
      [] c \in {"I", "i"}      -> 4
      [] c \in {"Q", "q"}      -> 8

\* struct.Struct(fmt) for a format without a byte order character: native
\* sizes and native alignment, every item at a multiple of its size, no
\* padding after the last item.  The offset of item i.
RECURSIVE struct_offset(_, _)
struct_offset(fmt, i) ==
    IF i = 1 THEN 0
    ELSE LET end == struct_offset(fmt, i - 1) + struct_item_size(fmt[i - 1])
             a   == struct_item_size(fmt[i])
         IN  ((end + a - 1) \div a) * a

\* record_struct.size
struct_calcsize(fmt) ==
    IF fmt = <<>> THEN 0
    ELSE struct_offset(fmt, Len(fmt)) + struct_item_size(fmt[Len(fmt)])

\* The STRUCTURED_DTYPE list built from a schema: (name, type, length) or
\* (name, type), the type held as its element size.
dtype_list(fd) ==
    [k \in 1..Len(fd) |->
        [name |-> fd[k].name, size |-> type_to_np_dtype(fd[k].base),
         length |-> fd[k].length]]

\* np.dtype(list): the fields one after another without padding.  The offset
\* of field k.
RECURSIVE dtype_offset(_, _)
dtype_offset(dt, k) ==
    IF k = 1 THEN 0
    ELSE dtype_offset(dt, k - 1) + dt[k - 1].size * dt[k - 1].length

\* np.dtype(list).itemsize
dtype_itemsize(dt) ==
    IF dt = <<>> THEN 0
    ELSE dtype_offset(dt, Len(dt)) + dt[Len(dt)].size * dt[Len(dt)].length

\* The index in the struct format of the first item of field k.
struct_item_of_field(fd, k) ==
    1 + SumSeq([j \in 1..(k - 1) |-> fd[j].length])

\* The assignment arr[name] = values for n records: the values encode
\* assigns have the shape of the columns they are read from, (n,) for a
\* scalar and (n, 5) for the levels of a side; the field has shape (n,) when
\* declared without brackets and (n, length) otherwise.  numpy broadcasts
\* (n,) into (n, length) when length = n or n = 1 and refuses every other
\* mismatch with a ValueError.  arr['sync'] = False is a scalar and fits any
\* shape.
assignment_fits(n, decl) ==
    LET value_arity == Field(decl.name).length
    IN  IF decl.name = "sync" THEN TRUE
        ELSE IF value_arity = 1
             THEN decl.length = 1 \/ decl.length = n \/ n = 1
             ELSE decl.length = value_arity

\* No repair script is running.
RepairIdle ==
    /\ repair_func = "none"
    /\ repair_items = <<>>
    /\ worker_pc = <<>>
    /\ future = <<>>
    /\ temp_dirs = {}
    /\ success_count = 0
    /\ failed_items = <<>>
    /\ reported = <<>>
    /\ pool_state = "idle"

\* The schema of a run whose schema is binary_format, imported.
SchemaIdle ==
    /\ fmt_dict = binary_format
    /\ module = "ready"
    /\ record_struct_fmt = get_struct_fmt(binary_format)
    /\ structured_dtype = dtype_list(binary_format)
    /\ schema_encode = "none"


EmptyMap == [s \in {} |-> None]

\* No directory.
NoTemp == [exists |-> FALSE, files |-> {}]

\* The year loop of a run that is not a run of SpecYear.
YearIdle ==
    /\ year_folders = <<>>
    /\ zip_files = {}
    /\ zip_status = EmptyMap
    /\ temp_processing = NoTemp
    /\ months = <<>>

\* The quantiser inputs of a run that is not a run of SpecQuantizer.
QuantIdle ==
    /\ q_price = 0
    /\ q_direction = ""
    /\ q_done = {}
    /\ q_tick = 0
    /\ q_helper_tick = 0
    /\ q_code = 0

NotDecoded == [ok |-> FALSE, records |-> <<>>]

\* ------------------------------------------------------------------------
\* SpecCodec: encode_month_snapshots stage by stage, then the decoder
\* ------------------------------------------------------------------------

InitCodec ==
    /\ byteorder \in {"little", "big"}
    /\ float_cast = "unused"
    /\ SchemaIdle
    /\ np_empty_byte = 0
    /\ RepairIdle
    /\ QuantIdle
    /\ YearIdle
    /\ month_name = None
    /\ process_args = <<>>
    /\ df \in SeqsUpTo(RowPool, MaxBatch)
    /\ pc = "call"
    /\ arr = <<>>
    /\ batch = <<>>
    /\ raw_bytes = <<>>
    /\ compressed_bytes = <<>>
    /\ decoded = NotDecoded
    /\ folder = {}
    /\ phase = "codec"
    /\ symbol_files = EmptyMap
    /\ units = EmptyMap
    /\ disk = {}

\* InitCodec runs the encoder on an array whose memory held zero bytes.  In
\* InitMemory the memory holds any of UninitBytes and the DataFrames are
\* built from the rows of the third and fourth day of the month.
InitMemory ==
    /\ byteorder \in {"little", "big"}
    /\ float_cast = "unused"
    /\ SchemaIdle
    /\ np_empty_byte \in UninitBytes
    /\ RepairIdle
    /\ QuantIdle
    /\ YearIdle
    /\ month_name = None
    /\ process_args = <<>>
    /\ df \in SeqsUpTo({ r \in RowPool : r.day \in {3, 4} }, MaxBatch)
    /\ pc = "call"
    /\ arr = <<>>
    /\ batch = <<>>
    /\ raw_bytes = <<>>
    /\ compressed_bytes = <<>>
    /\ decoded = NotDecoded
    /\ folder = {}
    /\ phase = "codec"
    /\ symbol_files = EmptyMap
    /\ units = EmptyMap
    /\ disk = {}

\* n = len(df); if n == 0: return b''
EncodeEmpty ==
    /\ pc = "call"
    /\ Len(df) = 0
    /\ pc' = "returned"
    /\ compressed_bytes' = <<>>
    /\ UNCHANGED << quant_vars, year_vars, schema_vars, repair_vars, byteorder, float_cast, np_empty_byte, df, arr, batch, raw_bytes, decoded, month_vars >>

\* parse_snapshot_df, np.empty and the field assignments.  A price tick
\* outside the int16 range makes the run take one of the outcomes of the
\* undefined conversion.
EncodeFill ==
    /\ pc = "call"
    /\ Len(df) > 0
    /\ df' = df
    /\ float_cast' \in IF HasOutOfRangeTick(df) THEN FloatCastOutcomes
                       ELSE {float_cast}
    /\ np_empty_byte' = np_empty_byte
    /\ arr' = FillArray(df)'
    /\ batch' = arr'
    /\ pc' = "filled"
    /\ UNCHANGED << quant_vars, year_vars, schema_vars, repair_vars, byteorder, raw_bytes, compressed_bytes, decoded, month_vars >>

\* for field in DIFF_FIELDS: np.subtract(...)
EncodeDiff ==
    /\ pc = "filled"
    /\ arr' = DiffPass(arr)
    /\ pc' = "diffed"
    /\ UNCHANGED << quant_vars, year_vars, schema_vars, repair_vars, byteorder, float_cast, np_empty_byte, df, batch, raw_bytes, compressed_bytes, decoded, month_vars >>

\* raw_bytes = arr.tobytes()
EncodeToBytes ==
    /\ pc = "diffed"
    /\ raw_bytes' = tobytes(arr, byteorder)
    /\ pc' = "packed"
    /\ UNCHANGED << quant_vars, year_vars, schema_vars, repair_vars, byteorder, float_cast, np_empty_byte, df, arr, batch, compressed_bytes, decoded, month_vars >>

\* compressed_bytes = zlib.compress(raw_bytes, level=6); return
EncodeCompress ==
    /\ pc = "packed"
    /\ compressed_bytes' = zlib_compress(raw_bytes)
    /\ pc' = "returned"
    /\ UNCHANGED << quant_vars, year_vars, schema_vars, repair_vars, byteorder, float_cast, np_empty_byte, df, arr, batch, raw_bytes, decoded, month_vars >>

\* The consumer decodes the returned bytes with the record count len(df),
\* which is the count the artifact name carries.
Decode ==
    /\ pc = "returned"
    /\ decoded' = decode(Len(df), compressed_bytes, byteorder)
    /\ pc' = "decoded"
    /\ UNCHANGED << quant_vars, year_vars, schema_vars, repair_vars, byteorder, float_cast, np_empty_byte, df, arr, batch, raw_bytes, compressed_bytes, month_vars >>

NextCodec ==
    \/ EncodeEmpty
    \/ EncodeFill
    \/ EncodeDiff
    \/ EncodeToBytes
    \/ EncodeCompress
    \/ Decode

SpecCodec == InitCodec /\ [][NextCodec]_vars

\* encode_month_snapshots on memory of any content.
SpecMemory == InitMemory /\ [][NextCodec]_vars

\* ------------------------------------------------------------------------
\* Spec: one month folder, grouped by symbol, every symbol encoded and written
\* ------------------------------------------------------------------------

\* month_name of the month being processed, and the directory the single
\* asset script writes to (its working directory).
MonthName == "2025_06"

WorkingDir == "."

\* The asset_symbol arguments process_month_folder is called with.
AssetArgs ==
    { << "S", "H", "6", "0", "0", "0", "0", "0" >>,
      << "s", "z", "0", "0", "0", "0", "0", "1" >>,
      << "s", "h", "6", "0", "0", "0", "0", "1" >> }

Init ==
    /\ byteorder \in {"little", "big"}
    /\ float_cast = "unused"
    /\ SchemaIdle
    /\ np_empty_byte = 0
    /\ RepairIdle
    /\ QuantIdle
    /\ YearIdle
    /\ month_name = MonthName
    /\ process_args = <<>>
    /\ folder \in { fs \in SUBSET FilePool : Cardinality(fs) <= MaxFiles }
    /\ phase = "start"
    /\ symbol_files = EmptyMap
    /\ units = EmptyMap
    /\ disk = {}
    /\ pc = "idle"
    /\ df = <<>>
    /\ arr = <<>>
    /\ batch = <<>>
    /\ raw_bytes = <<>>
    /\ compressed_bytes = <<>>
    /\ decoded = NotDecoded

Pending(files) ==
    [status |-> "pending", files |-> files, sorted_files |-> <<>>,
     combined_df |-> <<>>, record_count |-> 0, wrote |-> {},
     outcome |-> encode_outcome(<<>>), result |-> None]

\* open(path, 'wb').write(data): the file is created or replaced.
WriteFile(fs, dir, name, data) ==
    { e \in fs : ~(e.dir = dir /\ e.name = name) }
        \cup { [dir |-> dir, name |-> name, data |-> data] }

FileAt(path) == CHOOSE f \in folder : rel_path(f) = path

\* The body shared by process_symbol_files and process_month_folder: sort
\* the relative paths, read every file, concatenate, encode, and name the
\* artifact after the symbol and the row count.  handler names the
\* caller's except clause, "none" if it has none; nothing is written unless
\* the encoding returns.
AssembleUnit(symbol, files, dir, handler) ==
    LET sorted_files == sorted(files)
        sources      == [i \in 1..Len(sorted_files) |-> FileAt(sorted_files[i])]
        frames       == [i \in 1..Len(sources) |-> read_csv(sources[i])]
        combined_df  == pd_concat(frames)
        record_count == Len(combined_df)
        outcome      == encode_outcome(sources)
        status       == IF outcome.error = "none" THEN "returned"
                        ELSE IF caught(handler, outcome) THEN "skipped"
                        ELSE "raised"
    IN  [status       |-> status,
         files        |-> files,
         sorted_files |-> sorted_files,
         combined_df  |-> combined_df,
         record_count |-> record_count,
         wrote        |-> IF status = "returned"
                          THEN { [dir  |-> dir,
                                  name |-> artifact_name(symbol, record_count),
                                  data |-> encode_month_snapshots(combined_df, byteorder)] }
                          ELSE {},
         outcome      |-> outcome,
         result       |-> CASE status = "returned" -> symbol
                            [] status = "skipped"  -> skipped_marker(symbol)
                            [] status = "raised"   -> None]

\* process_all_zips, for the month: symbol_files = group_files_by_symbol(...)
\* and one unit of work per symbol.
GroupFilesBySymbol ==
    /\ phase = "start"
    /\ \E walk \in WalkOrders(folder) :
           /\ symbol_files' = group_files_by_symbol(walk)
           /\ units' = [sym \in DOMAIN symbol_files' |-> Pending(symbol_files'[sym])]
           /\ process_args' = symbol_order(walk)
    /\ phase' = "grouped"
    /\ UNCHANGED << quant_vars, year_vars, schema_vars, repair_vars, byteorder, float_cast, np_empty_byte, codec_vars, folder, disk,
                    month_name >>

\* process_symbol_files for one symbol of the pool; the units of a month run
\* in any order.
process_symbol_files(symbol) ==
    /\ phase = "grouped"
    /\ units[symbol].status = "pending"
    /\ LET u == AssembleUnit(symbol, units[symbol].files, month_name, "except ValueError")
       IN  /\ units' = [units EXCEPT ![symbol] = u]
           /\ disk' = IF u.wrote = {} THEN disk
                      ELSE UNION { WriteFile(disk, a.dir, a.name, a.data) : a \in u.wrote }
    /\ UNCHANGED << quant_vars, year_vars, schema_vars, repair_vars, byteorder, float_cast, np_empty_byte, codec_vars, folder, phase,
                    symbol_files, month_name, process_args >>

\* The body of process_month_folder after the grouping: files =
\* sorted(symbol_files[asset_symbol]), every file read, the frames
\* concatenated and encoded, the bytes written to
\* f"{asset_symbol}_{record_count}.bin" in the working directory.  There is
\* no try statement: an exception of the encoding leaves the function.
MonthFolderUnit(asset_symbol, asset_files) ==
    LET files        == sorted(asset_files)
        sources      == [i \in 1..Len(files) |-> FileAt(files[i])]
        dataframes   == [i \in 1..Len(sources) |-> read_csv(sources[i])]
        combined_df  == pd_concat(dataframes)
        record_count == Len(combined_df)
        outcome      == encode_outcome(sources)
        status       == IF outcome.error = "none" THEN "returned"
                        ELSE IF except_nothing(outcome) THEN "skipped"
                        ELSE "raised"
        output_file  == asset_symbol \o << "_" >> \o Decimal(record_count)
                            \o << ".", "b", "i", "n" >>
    IN  [status       |-> status,
         files        |-> asset_files,
         sorted_files |-> files,
         combined_df  |-> combined_df,
         record_count |-> record_count,
         wrote        |-> IF status = "returned"
                          THEN { [dir  |-> WorkingDir,
                                  name |-> output_file,
                                  data |-> encode_month_snapshots(combined_df, byteorder)] }
                          ELSE {},
         outcome      |-> outcome,
         result       |-> IF status = "skipped" THEN skipped_marker(asset_symbol)
                          ELSE None]

\* process_month_folder with an asset that has files in the folder.
process_month_folder(asset_symbol) ==
    /\ phase = "start"
    /\ \E walk \in WalkOrders(folder) :
           LET asset == str_lower(asset_symbol)
               local == group_files_by_symbol(walk)
           IN  /\ asset \in DOMAIN local
               /\ LET u == MonthFolderUnit(asset, local[asset])
                  IN  /\ units' = [sym \in {asset} |-> u]
                      /\ disk' = IF u.wrote = {} THEN disk
                                 ELSE UNION { WriteFile(disk, a.dir, a.name, a.data) : a \in u.wrote }
               /\ symbol_files' = local
    /\ phase' = "single_done"
    /\ UNCHANGED << quant_vars, year_vars, schema_vars, repair_vars, byteorder, float_cast, np_empty_byte, codec_vars, folder,
                    month_name, process_args >>

\* process_month_folder with an asset the folder holds no file of: "No data
\* found", nothing is written.
process_month_folder_no_data(asset_symbol) ==
    /\ phase = "start"
    /\ \E walk \in WalkOrders(folder) :
           /\ str_lower(asset_symbol) \notin DOMAIN group_files_by_symbol(walk)
           /\ symbol_files' = group_files_by_symbol(walk)
    /\ phase' = "single_done"
    /\ UNCHANGED << quant_vars, year_vars, schema_vars, repair_vars, byteorder, float_cast, np_empty_byte, codec_vars, folder, units, disk,
                    month_name, process_args >>

Next ==
    \/ GroupFilesBySymbol
    \/ \E symbol \in DOMAIN units : process_symbol_files(symbol)
    \/ \E asset_symbol \in AssetArgs : process_month_folder(asset_symbol)
    \/ \E asset_symbol \in AssetArgs : process_month_folder_no_data(asset_symbol)

Spec == Init /\ [][Next]_vars

\* A month folder of files that encode and files that fail, handed to either
\* variant.
InitVariants ==
    /\ byteorder \in {"little", "big"}
    /\ float_cast = "unused"
    /\ SchemaIdle
    /\ np_empty_byte = 0
    /\ RepairIdle
    /\ QuantIdle
    /\ YearIdle
    /\ month_name = MonthName
    /\ process_args = <<>>
    /\ folder \in { fs \in SUBSET VariantFilePool : Cardinality(fs) <= MaxFiles }
    /\ phase = "start"
    /\ symbol_files = EmptyMap
    /\ units = EmptyMap
    /\ disk = {}
    /\ pc = "idle"
    /\ df = <<>>
    /\ arr = <<>>
    /\ batch = <<>>
    /\ raw_bytes = <<>>
    /\ compressed_bytes = <<>>
    /\ decoded = NotDecoded

SpecVariants == InitVariants /\ [][Next]_vars

\* ------------------------------------------------------------------------
\* SpecYear: process_all_zips year by year
\* ------------------------------------------------------------------------

\* A pass is the body of the loop over the year folders for one year folder.
\* The pass after one that ended normally is the next turn of the loop or a
\* later run; the pass after one that an exception ended is a later run.
\* The output directory and the working directory outlive the passes.
InitYear ==
    /\ byteorder = "little"
    /\ float_cast = "unused"
    /\ SchemaIdle
    /\ np_empty_byte = 0
    /\ RepairIdle
    /\ QuantIdle
    /\ year_folders \in { << a >> : a \in YearFolderPool }
                           \cup { << a, b >> : a \in YearFolderPool, b \in LaterFolderPool }
    /\ zip_files = {}
    /\ zip_status = EmptyMap
    /\ temp_processing = NoTemp
    /\ months = <<>>
    /\ month_name = None
    /\ process_args = <<>>
    /\ folder = {}
    /\ phase = "idle"
    /\ symbol_files = EmptyMap
    /\ units = EmptyMap
    /\ disk = {}
    /\ pc = "idle"
    /\ df = <<>>
    /\ arr = <<>>
    /\ batch = <<>>
    /\ raw_bytes = <<>>
    /\ compressed_bytes = <<>>
    /\ decoded = NotDecoded

\* for year_folder in year_folders: the archives are listed and the local
\* temp directory is made, mkdir(exist_ok=True) keeping what it holds.
StartYear ==
    /\ phase \in {"idle", "year_done", "aborted"}
    /\ year_folders # <<>>
    /\ zip_files' = Head(year_folders)
    /\ year_folders' = Tail(year_folders)
    /\ zip_status' = [z \in zip_files' |-> "waiting"]
    /\ temp_processing' = [exists |-> TRUE, files |-> temp_processing.files]
    /\ months' = <<>>
    /\ month_name' = None
    /\ process_args' = <<>>
    /\ folder' = {}
    /\ symbol_files' = EmptyMap
    /\ units' = EmptyMap
    /\ phase' = "decompressing"
    /\ UNCHANGED << quant_vars, schema_vars, repair_vars, byteorder, float_cast, np_empty_byte, codec_vars, disk >>

\* decompress_zip_file for one archive of the pool; the archives of a year
\* are decompressed in any order.  A damaged archive raises BadZipFile.
decompress_zip_file(z) ==
    /\ phase = "decompressing"
    /\ zip_status[z] = "waiting"
    /\ IF z.corrupt
       THEN /\ zip_status' = [zip_status EXCEPT ![z] = "raised"]
            /\ UNCHANGED temp_processing
       ELSE /\ zip_status' = [zip_status EXCEPT ![z] = "done"]
            /\ temp_processing' = [exists |-> TRUE,
                                   files  |-> extract(temp_processing.files, z)]
    /\ UNCHANGED << quant_vars, schema_vars, repair_vars, byteorder, float_cast, np_empty_byte, codec_vars, month_vars,
                    year_folders, zip_files, months >>

\* A result list handed on as soon as one archive is decompressed.
decompress_results_partial(zs, status) == \E z \in zs : status[z] = "done"

\* decompress_results = list(pool.imap(decompress_zip_file, ...)): the list is
\* there when the result of every archive is.
decompress_results_ready(zs, status) == \A z \in zs : status[z] = "done"

\* list(pool.imap(decompress_zip_file, ...)) reaches the result of an archive
\* that raised: the exception leaves process_all_zips.
DecompressRaise ==
    /\ phase = "decompressing"
    /\ LET order == sorted_zips(zip_files)
       IN  \E k \in 1..Len(order) :
               /\ zip_status[order[k]] = "raised"
               /\ \A j \in 1..(k - 1) : zip_status[order[j]] = "done"
    /\ phase' = "aborted"
    /\ UNCHANGED << quant_vars, schema_vars, repair_vars, byteorder, float_cast, np_empty_byte, codec_vars, year_vars,
                    folder, symbol_files, units, disk, month_name, process_args >>

\* Every archive is decompressed: decompress_results holds their month names
\* in the order of the sorted archives.
DecompressDone ==
    /\ phase = "decompressing"
    /\ decompress_results_ready(zip_files, zip_status)
    /\ months' = LET order == sorted_zips(zip_files)
                 IN  [i \in 1..Len(order) |-> month_name_of(order[i].stem)]
    /\ phase' = "months"
    /\ UNCHANGED << quant_vars, schema_vars, repair_vars, byteorder, float_cast, np_empty_byte, codec_vars,
                    year_folders, zip_files, zip_status, temp_processing,
                    folder, symbol_files, units, disk, month_name, process_args >>

\* for month_name, extracted_month_folder in decompress_results: the next
\* month, whose folder is its directory under the temp directory.
BeginMonth ==
    /\ phase = "months"
    /\ months # <<>>
    /\ month_name' = Head(months)
    /\ months' = Tail(months)
    /\ folder' = { e.file : e \in { t \in temp_processing.files : t.month = month_name' } }
    /\ symbol_files' = EmptyMap
    /\ units' = EmptyMap
    /\ process_args' = <<>>
    /\ phase' = "start"
    /\ UNCHANGED << quant_vars, schema_vars, repair_vars, byteorder, float_cast, np_empty_byte, codec_vars,
                    year_folders, zip_files, zip_status, temp_processing, disk >>

\* list(pool.imap(process_symbol_files, ...)) reaches the result of a unit
\* that raised: the exception leaves process_all_zips, the pool is
\* terminated and the units that have not run never do.
PoolRaise ==
    /\ phase = "grouped"
    /\ \E k \in 1..Len(process_args) :
           /\ units[process_args[k]].status = "raised"
           /\ \A j \in 1..(k - 1) :
                  units[process_args[j]].status \in {"returned", "skipped"}
    /\ phase' = "aborted"
    /\ UNCHANGED << quant_vars, schema_vars, repair_vars, byteorder, float_cast, np_empty_byte, codec_vars, year_vars,
                    folder, symbol_files, units, disk, month_name, process_args >>

\* Every unit of the month has returned its symbol or its SKIPPED marker.
MonthDone ==
    /\ phase = "grouped"
    /\ \A sym \in DOMAIN units : units[sym].status \in {"returned", "skipped"}
    /\ phase' = "months"
    /\ UNCHANGED << quant_vars, schema_vars, repair_vars, byteorder, float_cast, np_empty_byte, codec_vars, year_vars,
                    folder, symbol_files, units, disk, month_name, process_args >>

\* After the last month: if temp_path.exists(): shutil.rmtree(temp_path)
CleanUp ==
    /\ phase = "months"
    /\ months = <<>>
    /\ temp_processing' = NoTemp
    /\ phase' = "year_done"
    /\ UNCHANGED << quant_vars, schema_vars, repair_vars, byteorder, float_cast, np_empty_byte, codec_vars,
                    year_folders, zip_files, zip_status, months,
                    folder, symbol_files, units, disk, month_name, process_args >>

NextYear ==
    \/ StartYear
    \/ \E z \in zip_files : decompress_zip_file(z)
    \/ DecompressRaise
    \/ DecompressDone
    \/ BeginMonth
    \/ GroupFilesBySymbol
    \/ \E symbol \in DOMAIN units : process_symbol_files(symbol)
    \/ PoolRaise
    \/ MonthDone
    \/ CleanUp

SpecYear == InitYear /\ [][NextYear]_vars

\* ------------------------------------------------------------------------
\* SpecQuantizer: the conversions of single values
\* ------------------------------------------------------------------------

\* The prices quantised (thousandths): the cent steps and the half-cent ties
\* between 12.300 and 12.400, and prices whose float64 product or quotient
\* misses the half.
PricePool ==
    (12300..12400) \cup {-12345, -235, 5, 235, 285, 545, 1005, 1015, 1055, 1225, 16385}

\* The direction cells mapped: the markers of direction_map, a missing cell
\* (""), and texts that are no marker.
DirectionPool ==
    {"CN_BUY", "B", "0", "CN_SELL", "S", "1", "-", "", "nan", "b", " B", "2", "0.0"}

InitQuantizer ==
    /\ byteorder \in {"little", "big"}
    /\ float_cast = "unused"
    /\ SchemaIdle
    /\ np_empty_byte = 0
    /\ RepairIdle
    /\ q_price \in PricePool
    /\ q_direction \in DirectionPool
    /\ q_done = {}
    /\ q_tick = 0
    /\ q_helper_tick = 0
    /\ q_code = 0
    /\ pc = "idle"
    /\ df = <<>>
    /\ arr = <<>>
    /\ batch = <<>>
    /\ raw_bytes = <<>>
    /\ compressed_bytes = <<>>
    /\ decoded = NotDecoded
    /\ folder = {}
    /\ phase = "quantizer"
    /\ symbol_files = EmptyMap
    /\ units = EmptyMap
    /\ disk = {}
    /\ YearIdle
    /\ month_name = None
    /\ process_args = <<>>

\* df['latest_price_tick'] = np.round(df[price] * 100.0).astype(np.int16)
QuantizeColumn ==
    /\ "column" \notin q_done
    /\ q_tick' = price_tick(q_price)
    /\ q_done' = q_done \cup {"column"}
    /\ UNCHANGED << schema_vars, repair_vars, byteorder, float_cast, np_empty_byte, codec_vars, month_vars, year_vars,
                    q_price, q_direction, q_helper_tick, q_code >>

\* price_to_tick(price)
PriceToTick ==
    /\ "helper" \notin q_done
    /\ q_helper_tick' = price_to_tick(q_price)
    /\ q_done' = q_done \cup {"helper"}
    /\ UNCHANGED << schema_vars, repair_vars, byteorder, float_cast, np_empty_byte, codec_vars, month_vars, year_vars,
                    q_price, q_direction, q_tick, q_code >>

\* df[direction].astype(str).map(direction_map).fillna(2).astype(np.uint8)
MapDirection ==
    /\ "direction" \notin q_done
    /\ q_code' = Cast("uint8", direction_map(astype_str(q_direction)))
    /\ q_done' = q_done \cup {"direction"}
    /\ UNCHANGED << schema_vars, repair_vars, byteorder, float_cast, np_empty_byte, codec_vars, month_vars, year_vars,
                    q_price, q_direction, q_tick, q_helper_tick >>

NextQuantizer ==
    \/ QuantizeColumn
    \/ PriceToTick
    \/ MapDirection

SpecQuantizer == InitQuantizer /\ [][NextQuantizer]_vars

\* ------------------------------------------------------------------------
\* Claims on the quantisers (checked under SpecQuantizer)
\* ------------------------------------------------------------------------

\* C12 (as stated): the tick of a price p is p * 100 rounded to the nearest
\* integer under one tie rule, and both quantisers give 1234 for 12.34 and
\* 1235 for 12.345.
C12_TickOfPrice ==
    /\ "column" \in q_done =>
           /\ 10 * q_tick - q_price \in -5..5
           /\ q_price = 12340 => q_tick = 1234
           /\ q_price = 12345 => q_tick = 1235
    /\ "helper" \in q_done =>
           /\ 10 * q_helper_tick - q_price \in -5..5
           /\ q_price = 12340 => q_helper_tick = 1234
           /\ q_price = 12345 => q_helper_tick = 1235

\* C12 (amended): the tick the pipeline stores is the float64 product
\* p * 100.0 rounded to the nearest integer, a tie going to the even
\* neighbour: 12.34 gives 1234, 12.345 gives 1234 and 12.355 gives 1236.
\* price_to_tick rounds the float64 quotient p / 0.01 by the same rule and
\* gives the same ticks between 12.300 and 12.400; the two differ where
\* product and quotient lie on different sides of the half (0.235 gives 24
\* and 23).
C12_TickHalfEven ==
    /\ "column" \in q_done =>
           /\ 10 * q_tick - q_price \in -5..5
           /\ q_price = 12340 => q_tick = 1234
           /\ q_price = 12345 => q_tick = 1234
           /\ q_price = 12355 => q_tick = 1236
           /\ q_price = 235 => q_tick = 24
    /\ "helper" \in q_done =>
           /\ 10 * q_helper_tick - q_price \in -5..5
           /\ q_price = 12340 => q_helper_tick = 1234
           /\ q_price = 12345 => q_helper_tick = 1234
           /\ q_price = 12355 => q_helper_tick = 1236
           /\ q_price = 235 => q_helper_tick = 23
    /\ {"column", "helper"} \subseteq q_done /\ q_price \in 12300..12400 =>
           /\ q_tick = q_helper_tick
           /\ q_price % 10 = 5 => q_tick % 2 = 0

\* C12 witness: both quantisers have been applied to 12.345.
C12_Witness ==
    /\ {"column", "helper"} \subseteq q_done
    /\ q_price = 12345
    /\ q_tick = 1234
    /\ q_helper_tick = 1234

\* C13: the direction mapping is total: the buy markers map to 0, the sell
\* markers to 1, every other cell (missing or unrecognised) to 2, so the
\* code is always one of 0, 1, 2 and the mapping of any cell can be taken.
C13_DirectionTotal ==
    /\ "direction" \notin q_done => ENABLED MapDirection
    /\ "direction" \in q_done =>
           /\ q_code \in {0, 1, 2}
           /\ q_direction \in {"CN_BUY", "B", "0"} => q_code = 0
           /\ q_direction \in {"CN_SELL", "S", "1"} => q_code = 1
           /\ q_direction \notin {"CN_BUY", "B", "0", "CN_SELL", "S", "1"} => q_code = 2

\* C13 witness: a missing cell and an unrecognised text have been mapped.
C13_Witness ==
    /\ "direction" \in q_done
    /\ q_direction \in {"", "b"}
    /\ q_code = 2

\* ------------------------------------------------------------------------
\* Claims on the codec (checked under SpecCodec)
\* ------------------------------------------------------------------------

Encoded == pc \in {"diffed", "packed", "returned", "decoded"} /\ Len(df) > 0

\* C1 (as stated): round trip.  For every batch of any length >= 0, decoding
\* what encode_month_snapshots returned (inflate, slice into 54-byte records,
\* running sum of the differential fields) succeeds and yields the batch as it
\* was before the differential pass, field for field.
C1_RoundTrip ==
    pc = "decoded" => decoded.ok /\ decoded.records = batch

\* The type's range of a base type of 8 or 16 bits.
InTypeRange(t, v) ==
    LET m == Modulus(t)
    IN  IF IsSigned(t) THEN -(m \div 2) <= v /\ v < m \div 2 ELSE 0 <= v /\ v < m

\* C2 (as stated): after the differential pass every differential field of
\* record i >= 1 holds the integer raw[i] - raw[i-1] of the pre-transform
\* values, element by element.
C2_IntegerDifference ==
    pc = "diffed" =>
        \A i \in 2..Len(arr) : \A f \in {"date", "time_s", "latest_price_tick",
                                         "bid_price_ticks", "ask_price_ticks"} :
            \A j \in 1..Len(arr[i][f]) :
                arr[i][f][j] = batch[i][f][j] - batch[i - 1][f][j]

\* C2 (amended): after the differential pass every differential field of
\* record i >= 1 holds the value of its own storage type that is congruent to
\* raw[i] - raw[i-1] modulo 2^w (w the width of the type), both operands
\* being pre-transform values; it is the integer difference whenever that
\* fits the type.
C2_DifferenceInFieldType ==
    pc = "diffed" =>
        \A i \in 2..Len(arr) : \A f \in {"date", "time_s", "latest_price_tick",
                                         "bid_price_ticks", "ask_price_ticks"} :
            \A j \in 1..Len(arr[i][f]) :
                LET t == Field(f).base
                    d == batch[i][f][j] - batch[i - 1][f][j]
                IN  /\ InTypeRange(t, arr[i][f][j])
                    /\ (arr[i][f][j] - d) % Modulus(t) = 0
                    /\ InTypeRange(t, d) => arr[i][f][j] = d

\* C2 witness: a differenced batch of two records or more in which the time
\* falls from one record to the next (a day boundary).
C2_Witness ==
    /\ pc = "diffed"
    /\ Len(arr) >= 2
    /\ \E i \in 2..Len(arr) : batch[i].time_s[1] < batch[i - 1].time_s[1]

\* C3: after encoding a batch of n >= 1 records, record 0 holds the absolute
\* quantised value of every field and sync = true, and every later record has
\* sync = false, also across days.
C3_SyncRecord ==
    Encoded =>
        /\ arr[1] = batch[1]
        /\ arr[1].sync = << TRUE >>
        /\ arr[1].date = << df[1].day >>
        /\ arr[1].time_s = << df[1].sec % 65536 >>
        /\ \A i \in 2..Len(arr) : arr[i].sync = << FALSE >>

\* C3 witness: an encoded batch that spans two days.
C3_Witness ==
    /\ Encoded
    /\ Len(arr) >= 2
    /\ batch[1].date # batch[Len(arr)].date

\* C4: the differential pass leaves sync, trade_count, turnover, volume,
\* bid_volumes, ask_volumes and direction of every record as they were
\* assigned.
C4_NonDifferentialUnchanged ==
    Encoded =>
        \A i \in 1..Len(arr) :
            \A f \in {"sync", "trade_count", "turnover", "volume",
                      "bid_volumes", "ask_volumes", "direction"} :
                arr[i][f] = batch[i][f]

\* C4 witness: an encoded batch whose differential fields did change while
\* the volume differs between two neighbouring records.
C4_Witness ==
    /\ Encoded
    /\ arr # batch
    /\ \E i \in 2..Len(arr) : batch[i].volume # batch[i - 1].volume

\* The byte offsets the record layout is documented with.
DocumentedOffset ==
    [sync |-> 0, date |-> 1, time_s |-> 2, latest_price_tick |-> 4,
     trade_count |-> 6, turnover |-> 7, volume |-> 11, bid_price_ticks |-> 13,
     bid_volumes |-> 23, ask_price_ticks |-> 33, ask_volumes |-> 43,
     direction |-> 53]

\* C5: a record is 54 bytes without padding, the fields at the documented
\* offsets in schema order, and the raw image of n records is n * 54 bytes,
\* every field's bytes lying at its offset.
C5_RecordLayout ==
    /\ ItemSize = 54
    /\ \A f \in FieldNames : FieldOffset(f) = DocumentedOffset[f]
    /\ pc \in {"packed", "returned", "decoded"} /\ Len(df) > 0 =>
        /\ Len(raw_bytes) = Len(arr) * 54
        /\ \A i \in 1..Len(arr) : \A k \in 1..Len(binary_format) :
               LET o == (i - 1) * 54 + DocumentedOffset[binary_format[k].name]
               IN  SubSeq(raw_bytes, o + 1, o + FieldSize(k))
                       = FieldBytes(arr[i], k, byteorder)

\* C5 witness: the raw image of a batch of two records or more.
C5_Witness ==
    pc = "packed" /\ Len(arr) >= 2 /\ Len(raw_bytes) = Len(arr) * 54

\* min(max(v, 0), 2^32 - 1) of a wide number.
SaturatedTurnover(v) ==
    LET top == Wide(65535, 65535, 0)
        lo0 == IF WideLess(v, WideZero) THEN WideZero ELSE v
    IN  IF WideLess(top, lo0) THEN top ELSE lo0

\* C10 (as stated): the stored trade_count is min(max(n, 0), 255) and the
\* stored turnover is min(max(v, 0), 2^32 - 1), for every input value.
C10_SaturationExact ==
    pc = "filled" =>
        \A i \in 1..Len(arr) :
            /\ arr[i].trade_count[1] = Min(Max(df[i].trade_count, 0), 255)
            /\ Wide(arr[i].turnover[1].hi, arr[i].turnover[1].lo, 0)
                   = SaturatedTurnover(df[i].turnover)

\* C10 (amended): the stored trade_count is min(max(n, 0), 255) for every
\* integer n, and the stored turnover is the integer part of
\* min(max(v, 0), 2^32 - 1) for every finite amount v; neither wraps.
C10_Saturation ==
    pc = "filled" =>
        \A i \in 1..Len(arr) :
            LET s == SaturatedTurnover(df[i].turnover)
            IN  /\ arr[i].trade_count[1] = Min(Max(df[i].trade_count, 0), 255)
                /\ arr[i].turnover[1] = [hi |-> s.hi, lo |-> s.lo]

\* C10 witness: a filled batch holding a trade count above 255, a negative
\* one, a turnover above 2^32 - 1 and a negative one.
C10_Witness ==
    /\ pc = "filled"
    /\ \E i \in 1..Len(df) : df[i].trade_count > 255
    /\ \E i \in 1..Len(df) : df[i].trade_count < 0
    /\ \E i \in 1..Len(df) : WideLess(Wide(65535, 65535, 0), df[i].turnover)
    /\ \E i \in 1..Len(df) : WideLess(df[i].turnover, WideZero)

Returned == { sym \in DOMAIN units : units[sym].status = "returned" }

\* C6 (as stated): every artifact written, whatever record count n >= 0 its
\* name carries, is a deflate stream that inflates to exactly n * 54 bytes.
C6_ArtifactFormat ==
    \A a \in disk :
        LET inf == zlib_decompress(a.data)
        IN  /\ inf.ok
            /\ Len(inf.data) = parse_artifact_name(a.name).record_count * 54

\* The rows of the sources of a unit, source after source in the order the
\* unit read them.
SourceRows(u) ==
    Flatten([i \in 1..Len(u.sorted_files) |-> read_csv(FileAt(u.sorted_files[i]))])

\* C7: a unit that returns for symbol s, its sources holding r_1..r_k rows,
\* has written exactly one artifact, named <s>_<r_1+...+r_k>.bin; that count is the number of records encoded, no row
\* dropped, repeated or merged; with at least one record the artifact decodes
\* to all the rows in their original order, with none it holds no record.
C7_ArtifactNaming ==
    \A sym \in Returned :
        LET u     == units[sym]
            total == SumSeq([i \in 1..Len(u.files) |-> FileAt(u.files[i]).nrows])
        IN  /\ Cardinality(u.wrote) = 1
            /\ u.wrote \subseteq disk
            /\ \A a \in u.wrote :
                   LET nm == parse_artifact_name(a.name)
                   IN  /\ nm.symbol = sym
                       /\ nm.suffix = << ".", "b", "i", "n" >>
                       /\ nm.record_count = total
                       /\ Len(a.name) = Len(sym) + 1 + Len(Decimal(total)) + 4
                       /\ total = 0 => a.data = <<>>
                       /\ total >= 1 =>
                              LET d == decode(nm.record_count, a.data, byteorder)
                              IN  /\ d.ok
                                  /\ Len(d.records) = total
                                  /\ d.records = FillArray(SourceRows(u))

\* C7 witness: the unit of sh600000 has returned with sources of 2 and 3
\* rows and the artifact sh600000_5.bin is on disk.
C7_Witness ==
    /\ << "s", "h", "6", "0", "0", "0", "0", "0" >> \in Returned
    /\ { FileAt(units[<< "s", "h", "6", "0", "0", "0", "0", "0" >>].files[i]).nrows : i \in 1..Len(units[<< "s", "h", "6", "0", "0", "0", "0", "0" >>].files) } = {2, 3}
    /\ Len(units[<< "s", "h", "6", "0", "0", "0", "0", "0" >>].files) = 2
    /\ \E a \in disk : a.name = << "s", "h", "6", "0", "0", "0", "0", "0", "_", "5", ".", "b", "i", "n" >>

\* The date in the name of the file at a relative path (YYYYMMDD).
DateOfPath(path) == SubSeq(FileAt(path).name, 10, 17)

\* C8 (as stated): the batch of a symbol is the concatenation of its sources
\* in ascending order of their calendar date, the rows of each source in
\* their original order, also for files in nested daily directories and for
\* names whose prefix differs in letter case.
C8_DateOrder ==
    \A sym \in Returned :
        LET u == units[sym]
        IN  /\ \A i, j \in 1..Len(u.sorted_files) :
                   i < j => ~StrLess(DateOfPath(u.sorted_files[j]),
                                     DateOfPath(u.sorted_files[i]))
            /\ u.combined_df = SourceRows(u)

\* ^[A-Za-z]{2}\d{6}_\d{8}\.csv$ on the whole name.
MatchesGrammar(name) ==
    /\ Len(name) = 21
    /\ \A i \in 1..2 : IsLower(name[i]) \/ IsUpper(name[i])
    /\ \A i \in 3..8 : IsDigit(name[i])
    /\ name[9] = "_"
    /\ \A i \in 10..17 : IsDigit(name[i])
    /\ SubSeq(name, 18, 21) = << ".", "c", "s", "v" >>

\* C9 (as stated): a file contributes to a symbol if and only if its whole
\* name matches the grammar, the symbol being the lower-cased prefix; every
\* other file is ignored by the grouping.
C9_SymbolGrammar ==
    phase \in {"grouped", "single_done"} =>
        \A f \in folder :
            LET keys == { sym \in DOMAIN symbol_files :
                             rel_path(f) \in Range(symbol_files[sym]) }
            IN  IF MatchesGrammar(f.name)
                THEN keys = { str_lower(SubSeq(f.name, 1, 8)) }
                ELSE keys = {}

\* C17: within the pool of a month the symbols handed to the pool are
\* pairwise distinct and are the keys of the grouping; every unit writes at
\* most one file, into the month's directory and named after its own symbol;
\* no two units write the same path.
C17_NoWriteContention ==
    phase = "grouped" =>
        /\ \A i, j \in 1..Len(process_args) :
               i # j => process_args[i] # process_args[j]
        /\ Range(process_args) = DOMAIN units
        /\ \A sym \in DOMAIN units :
               /\ Cardinality(units[sym].wrote) <= 1
               /\ \A a \in units[sym].wrote :
                      /\ a.dir = month_name
                      /\ parse_artifact_name(a.name).symbol = sym
                      /\ a \in disk
        /\ \A s1, s2 \in DOMAIN units :
               s1 # s2 =>
                   \A a \in units[s1].wrote, b \in units[s2].wrote :
                       ~(a.dir = b.dir /\ a.name = b.name)

\* C17 witness: the units of sh600000 and sz000001 of one month have both
\* written their artifact.
C17_Witness ==
    /\ phase = "grouped"
    /\ {SH600000, SZ000001} \subseteq DOMAIN units
    /\ units[SH600000].wrote # {}
    /\ units[SZ000001].wrote # {}

\* ------------------------------------------------------------------------
\* SpecSchema: the import of the module with a schema, then an encode call
\* ------------------------------------------------------------------------

\* The base types fields are redeclared with: two the struct mapping knows,
\* one only the numpy mapping knows, one neither knows.
SchemaBasePool == {"uint16", "int32", "float32", "float16"}

\* The lengths fields are redeclared with (1: no brackets).
SchemaLengthPool == {1, 3, 5, 7}

\* binary_format with field k declared as base[length].
Redeclare(k, base, length) ==
    [binary_format EXCEPT ![k] = [name    |-> binary_format[k].name,
                                  base    |-> base,
                                  length  |-> length,
                                  is_diff |-> binary_format[k].is_diff]]

\* The schemas: binary_format itself and binary_format with one field
\* redeclared.
SchemaPool ==
    {binary_format}
    \cup { Redeclare(k, base, length) :
             k \in 1..Len(binary_format), base \in SchemaBasePool,
             length \in SchemaLengthPool }

InitSchema ==
    /\ fmt_dict \in SchemaPool
    /\ module = "importing"
    /\ record_struct_fmt = <<>>
    /\ structured_dtype = <<>>
    /\ schema_encode = "none"
    /\ byteorder = "little"
    /\ float_cast = "unused"
    /\ np_empty_byte = 0
    /\ RepairIdle
    /\ QuantIdle
    /\ YearIdle
    /\ month_name = None
    /\ process_args = <<>>
    /\ df = <<>>
    /\ pc = "idle"
    /\ arr = <<>>
    /\ batch = <<>>
    /\ raw_bytes = <<>>
    /\ compressed_bytes = <<>>
    /\ decoded = NotDecoded
    /\ folder = {}
    /\ phase = "schema"
    /\ symbol_files = EmptyMap
    /\ units = EmptyMap
    /\ disk = {}

\* The module-level statements: record_struct_fmt = get_struct_fmt(...),
\* record_struct = struct.Struct(...), then the loop that builds
\* STRUCTURED_DTYPE.  A base type that is not a key of the mapping looked up
\* raises KeyError; the length is not looked at.
ImportModule ==
    /\ module = "importing"
    /\ IF \E k \in 1..Len(fmt_dict) : fmt_dict[k].base \notin DOMAIN type_to_struct_fmt
       THEN /\ module' = "KeyError"
            /\ UNCHANGED << record_struct_fmt, structured_dtype >>
       ELSE IF \E k \in 1..Len(fmt_dict) : fmt_dict[k].base \notin np_mapping_keys
       THEN /\ module' = "KeyError"
            /\ record_struct_fmt' = get_struct_fmt(fmt_dict)
            /\ UNCHANGED structured_dtype
       ELSE /\ module' = "ready"
            /\ record_struct_fmt' = get_struct_fmt(fmt_dict)
            /\ structured_dtype' = dtype_list(fmt_dict)
    /\ UNCHANGED << fmt_dict, schema_encode, repair_vars, byteorder, float_cast, np_empty_byte,
                    codec_vars, month_vars, quant_vars, year_vars >>

\* encode_month_snapshots called in the imported module on a DataFrame of n
\* rows: np.empty(n, dtype=STRUCTURED_DTYPE) and the field assignments.
EncodeWithSchema ==
    /\ module = "ready"
    /\ schema_encode = "none"
    /\ \E n \in 1..MaxBatch :
           schema_encode' =
               IF \A k \in 1..Len(fmt_dict) : assignment_fits(n, fmt_dict[k])
               THEN "returned" ELSE "ValueError"
    /\ UNCHANGED << fmt_dict, module, record_struct_fmt, structured_dtype,
                    repair_vars, byteorder, float_cast, np_empty_byte,
                    codec_vars, month_vars, quant_vars, year_vars >>

NextSchema ==
    \/ ImportModule
    \/ EncodeWithSchema

SpecSchema == InitSchema /\ [][NextSchema]_vars

\* A field declared with one of the nine integer types and arity 1 or 5.
Recognised(decl) ==
    /\ decl.base \in {"bool", "uint8", "int8", "uint16", "int16", "uint32",
                       "int32", "uint64", "int64"}
    /\ decl.length \in {1, 5}

\* C23 (as stated): a schema with a field of an unrecognised type or arity
\* fails at the import, and no encode call ever runs with it.
C23_SchemaInit ==
    (module # "importing" /\ \E k \in 1..Len(fmt_dict) : ~Recognised(fmt_dict[k])) =>
        /\ module # "ready"
        /\ schema_encode = "none"

\* C30 (as stated): for binary_format the size of record_struct equals the
\* item size of the structured dtype, both are 54 bytes, and every field
\* starts at the same offset in both layouts.
C30_LayoutsAgree ==
    (module = "ready" /\ fmt_dict = binary_format) =>
        /\ struct_calcsize(record_struct_fmt) = dtype_itemsize(structured_dtype)
        /\ dtype_itemsize(structured_dtype) = RecordSize
        /\ \A k \in 1..Len(fmt_dict) :
               struct_offset(record_struct_fmt, struct_item_of_field(fmt_dict, k))
                   = dtype_offset(structured_dtype, k)

\* ------------------------------------------------------------------------
\* Claims about process_all_zips (SpecYear)
\* ------------------------------------------------------------------------

\* The units of the month that have run.
Finished == { sym \in DOMAIN units : units[sym].status # "pending" }

\* The files a unit was handed, as read from the month folder.
SourcesOf(sym) ==
    [i \in 1..Len(units[sym].sorted_files) |-> FileAt(units[sym].sorted_files[i])]

\* C14 (as stated): a unit that raises does not abort its siblings: when a
\* pass has ended with a raised unit, every other symbol of the month has
\* run and reported, and no month of the year is left unprocessed.
C14_FailureIsolation ==
    (phase = "aborted" /\ \E sym \in DOMAIN units : units[sym].status = "raised") =>
        /\ \A sym \in DOMAIN units : units[sym].status # "pending"
        /\ months = <<>>

\* The unit's frame reaches pd.to_datetime and has a row it cannot parse.
DatetimeFails(sym) ==
    /\ units[sym].outcome.raised_at = "to_datetime"
    /\ to_datetime_error(SourcesOf(sym)) # "none"

\* C15 (as stated): a unit whose datetime parsing fails is caught: it returns
\* the marker "<symbol> (SKIPPED)", writes no artifact, and the pass goes on.
C15_SkipAndReport ==
    \A sym \in Finished :
        DatetimeFails(sym) =>
            /\ units[sym].status = "skipped"
            /\ units[sym].result = skipped_marker(sym)
            /\ units[sym].wrote = {}

\* A column the record is filled from is absent from the unit's frame.
MissingFilledColumn(sym) ==
    (required_columns \cup LevelColumns) \ concat_columns(SourcesOf(sym)) # {}

\* C16 (as stated): a frame that lacks a column the record is filled from is
\* rejected by the validation of parse_snapshot_df, before any price is
\* quantised, and no artifact is written.
C16_MissingRequiredField ==
    \A sym \in Finished :
        MissingFilledColumn(sym) =>
            /\ units[sym].outcome.error = "AssertionError"
            /\ units[sym].outcome.raised_at = "validation"
            /\ ~units[sym].outcome.quantised
            /\ units[sym].wrote = {}

\* C18 (as stated): whatever passes have run over the output directory, a
\* month's subdirectory holds one artifact per symbol: the artifact of
\* every unit that returned, and no second artifact of any symbol.
C18_OutputLayout ==
    /\ \A sym \in Finished :
           units[sym].status = "returned" => units[sym].wrote \subseteq disk
    /\ \A a, b \in disk :
           (a.dir = b.dir /\ parse_artifact_name(a.name).symbol
                               = parse_artifact_name(b.name).symbol) => a = b

\* C19 (as stated): two different archives of a year never decompress into
\* the same month directory of the temp directory.
C19_ExclusiveMonthDir ==
    \A z1, z2 \in zip_files :
        (z1 # z2 /\ zip_status[z1] = "done" /\ zip_status[z2] = "done") =>
            month_name_of(z1.stem) # month_name_of(z2.stem)

\* C20 (as stated): when the processing of a year has ended, normally or by
\* an exception, the temp directory does not exist; and when a year starts,
\* before any archive is decompressed, it holds no file.
C20_TempRemoved ==
    /\ phase \in {"year_done", "aborted"} => ~temp_processing.exists
    /\ (phase = "decompressing" /\ \A z \in zip_files : zip_status[z] = "waiting") =>
           temp_processing.files = {}

\* The months of the year's archives in the order of the archive names.
ArchiveOrder ==
    LET n   == Cardinality(zip_files)
        seq == CHOOSE f \in [1..n -> zip_files] :
                   \A i, j \in 1..n : i < j => StrLess(f[i].stem, f[j].stem)
    IN  [i \in 1..n |-> month_name_of(seq[i].stem)]

\* C21: in every pass no unit has run while an archive of the year is not
\* decompressed; the month being processed and the months still to come are
\* the tail of the archive order; and the units are those of the one month
\* being processed, their files being files of its folder.
C21_PhaseOrdering ==
    /\ Finished # {} => \A z \in zip_files : zip_status[z] = "done"
    /\ phase \in {"start", "grouped"} =>
           /\ \A z \in zip_files : zip_status[z] = "done"
           /\ \E k \in 1..Len(ArchiveOrder) :
                  /\ ArchiveOrder[k] = month_name
                  /\ months = SubSeq(ArchiveOrder, k + 1, Len(ArchiveOrder))
           /\ folder = { e.file : e \in { t \in temp_processing.files :
                                              t.month = month_name } }
           /\ \A sym \in DOMAIN units :
                  \A path \in Range(units[sym].files) :
                      \E f \in folder : rel_path(f) = path
    /\ phase = "months" =>
           \E k \in 0..Len(ArchiveOrder) :
               months = SubSeq(ArchiveOrder, k + 1, Len(ArchiveOrder))

\* C21 witness: in a year of two archives the units of the second month
\* have run, one in the first month's directory having written before.
C21_Witness ==
    /\ phase = "grouped"
    /\ Cardinality(zip_files) = 2
    /\ months = <<>>
    /\ month_name = ArchiveOrder[2]
    /\ ArchiveOrder[1] # ArchiveOrder[2]
    /\ \E sym \in Finished : units[sym].status = "returned"
    /\ \E a \in disk : a.dir = ArchiveOrder[1]

\* ------------------------------------------------------------------------
\* Further claims about encode_month_snapshots (SpecCodec)
\* ------------------------------------------------------------------------

\* The bytes encode_month_snapshots packs for the DataFrame frame when the
\* memory np.empty hands out holds g in every byte.
ImageOnMemory(frame, order, g) ==
    LET a == DiffPass(FillArrayFrom(frame, np_empty(Len(frame), g)))
    IN  Flatten([i \in 1..Len(a) |-> RecordImageOver(a[i], order, g)])

\* C22: every one of the 54 bytes of a record belongs to a field and every
\* field is assigned, so the packed bytes of a batch are the same whatever
\* the memory of the freshly allocated array held, and the compressed bytes
\* are those of compressing the packed bytes.
C22_Determinism ==
    /\ ItemSize = RecordSize
    /\ \A p \in 1..ItemSize : ByteOwner[p] # 0
    /\ (pc \in {"packed", "returned", "decoded"} /\ Len(df) > 0) =>
           /\ Len(raw_bytes) = Len(df) * RecordSize
           /\ \A g \in UninitBytes : raw_bytes = ImageOnMemory(df, byteorder, g)
    /\ (pc \in {"returned", "decoded"} /\ Len(df) > 0) =>
           compressed_bytes = zlib_compress(raw_bytes)

\* C22 witness: a batch of two rows has been encoded on memory that held
\* non-zero bytes.
C22_Witness ==
    /\ pc = "returned"
    /\ Len(df) = 2
    /\ np_empty_byte = 165
    /\ Len(compressed_bytes) > 0

\* Row a carries an earlier timestamp than row b.
Earlier(a, b) == a.day < b.day \/ (a.day = b.day /\ a.sec < b.sec)

\* The (date, time) sequence of the DataFrame is not strictly increasing.
Unordered(frame) == \E i \in 2..Len(frame) : ~Earlier(frame[i - 1], frame[i])

\* C24: a batch whose timestamps are equal or fall is encoded like any
\* other: record i of the array is row i of the input, the call returns a
\* stream, and decoding returns the batch in that order.
C24_NoSortNoValidation ==
    Unordered(df) =>
        /\ pc \in {"filled", "diffed", "packed", "returned", "decoded"} =>
               /\ Len(batch) = Len(df)
               /\ \A i \in 1..Len(df) :
                      /\ batch[i].date = << Cast("uint8", df[i].day) >>
                      /\ batch[i].time_s = << Cast("uint16", df[i].sec) >>
                      /\ batch[i].volume = << Cast("uint16", df[i].volume) >>
        /\ pc \in {"returned", "decoded"} => Len(compressed_bytes) > 0
        /\ pc = "decoded" => decoded.ok /\ decoded.records = batch

\* C24 witness: a batch of three rows, two of them with the same timestamp
\* and one earlier than its predecessor, has been encoded and decoded.
C24_Witness ==
    /\ pc = "decoded"
    /\ Len(df) = 3
    /\ \E i \in 2..3 : df[i].day = df[i - 1].day /\ df[i].sec = df[i - 1].sec
    /\ \E i \in 2..3 : Earlier(df[i], df[i - 1])

\* C25 (as stated): the time_s of every record is hour * 3600 + minute * 60
\* + second of its row's time of day, for every time from 00:00:00 to
\* 23:59:59.
C25_SecondsFit ==
    pc \in {"filled", "diffed", "packed", "returned", "decoded"} =>
        \A i \in 1..Len(df) :
            LET t == time_components(df[i].sec)
            IN  batch[i].time_s = << t.hour * 3600 + t.minute * 60 + t.second >>

\* The width in bits of a differential field's storage type.
DiffWidth(f) == 8 * type_to_np_dtype(Field(f).base)

\* C26: the stored delta of a differential field is the value of the field's
\* type congruent to raw[i] - raw[i-1] modulo 2^w, w being 8 for date and 16
\* for time_s and the price ticks, and the running sum modulo 2^w in
\* increasing index order gives every raw value back.
C26_DiffInOwnWidth ==
    /\ DiffWidth("date") = 8
    /\ \A f \in DiffFieldSet \ {"date"} : DiffWidth(f) = 16
    /\ (pc \in {"diffed", "packed", "returned", "decoded"} /\ Len(df) > 0) =>
           \A f \in DiffFieldSet : \A j \in 1..Field(f).length :
               /\ arr[1][f][j] = batch[1][f][j]
               /\ \A i \in 2..Len(arr) :
                      /\ InTypeRange(Field(f).base, arr[i][f][j])
                      /\ arr[i][f][j] =
                             Cast(Field(f).base, batch[i][f][j] - batch[i - 1][f][j])
    /\ (pc = "decoded" /\ Len(df) > 0) =>
           /\ decoded.ok
           /\ \A i \in 1..Len(batch) : \A f \in DiffFieldSet :
                  decoded.records[i][f] = batch[i][f]

\* C26 witness: a decoded batch in which the time falls from one record to
\* the next and a price tick moves by more than an int16 holds.
C26_Witness ==
    /\ pc = "decoded"
    /\ Len(batch) >= 2
    /\ \E i \in 2..Len(batch) : batch[i].time_s[1] < batch[i - 1].time_s[1]
    /\ \E i \in 2..Len(batch) :
           batch[i].latest_price_tick[1] - batch[i - 1].latest_price_tick[1] > 32767

\* ------------------------------------------------------------------------
\* Further claims about the month folder (Spec)
\* ------------------------------------------------------------------------

\* What process_symbol_files of the all-assets variant does with the files
\* the single-asset run has just processed.
AllAssetsUnit(sym) ==
    AssembleUnit(sym, symbol_files[sym], month_name, "except ValueError")

Occurrences(paths, path) == Cardinality({ i \in 1..Len(paths) : paths[i] = path })

\* C28: after group_files_by_symbol has run, every file of the month folder
\* whose name ends with '.csv' and yields a symbol occurs once in the group
\* keyed by the lower-cased first eight characters of its name and in no
\* other group, at whatever depth it lies; every other file occurs in no
\* group; no group is empty and a group holds nothing but files of the
\* folder.
C28_GroupingPartitions ==
    phase # "start" =>
        /\ \A f \in folder :
               IF /\ endswith(f.name, << ".", "c", "s", "v" >>)
                  /\ extract_symbol_from_filename(f.name) # None
               THEN LET key == str_lower(SubSeq(f.name, 1, 8))
                    IN  /\ key \in DOMAIN symbol_files
                        /\ \A g \in DOMAIN symbol_files :
                               Occurrences(symbol_files[g], rel_path(f))
                                   = IF g = key THEN 1 ELSE 0
               ELSE \A g \in DOMAIN symbol_files :
                        Occurrences(symbol_files[g], rel_path(f)) = 0
        /\ \A g \in DOMAIN symbol_files :
               /\ symbol_files[g] # <<>>
               /\ \A i \in 1..Len(symbol_files[g]) :
                      \E f \in folder : rel_path(f) = symbol_files[g][i]

\* C28 witness: a grouped folder in which one group holds a file of the
\* folder itself and a file of a daily directory, one of them named with an
\* upper-case prefix, and which holds a file that is in no group.
C28_Witness ==
    /\ phase = "grouped"
    /\ SH600000 \in DOMAIN symbol_files
    /\ \E f, g \in folder :
           /\ f.dir = <<>> /\ g.dir # <<>>
           /\ IsUpper(g.name[1]) /\ IsLower(f.name[1])
           /\ Occurrences(symbol_files[SH600000], rel_path(f)) = 1
           /\ Occurrences(symbol_files[SH600000], rel_path(g)) = 1
    /\ \E f \in folder :
           \A g \in DOMAIN symbol_files : Occurrences(symbol_files[g], rel_path(f)) = 0

\* ------------------------------------------------------------------------
\* FileRepair: process_with_pool, fix_single_archive, convert_single_zip
\* ------------------------------------------------------------------------

\* Most items of one call of process_with_pool.
MaxItems == 2

\* How the work on an item goes.
\*   "ok"                    every step succeeds
\*   "structure_error"       probe_zip_structure returns a message
\*   "extract_failed"        unrar x ends with a return code other than 0
\*   "rar_failed"            rar a ends with a return code other than 0
\*   "exception"             a statement of the try block raises (the move of
\*                           an extracted entry, zf.extractall)
\*   "exception_unloggable"  as "exception", with a message the log file's
\*                           encoding cannot hold, so that the f.write of
\*                           log_message raises UnicodeEncodeError
\*   "log_unwritable"        the log file of the worker cannot be opened:
\*                           log_message raises OSError
Fates(func) ==
    IF func = "fix_single_archive"
    THEN {"ok", "extract_failed", "rar_failed", "exception",
          "exception_unloggable", "log_unwritable"}
    ELSE {"ok", "structure_error", "rar_failed", "exception",
          "exception_unloggable", "log_unwritable"}

\* The date of the archive an item names; a date can be given twice.
DateOfFate(fate) ==
    IF fate \in {"ok", "exception", "log_unwritable"} THEN "20241119" ELSE "20240926"

RepairItem(fate) == [date |-> DateOfFate(fate), fate |-> fate]

\* The name a worker reports: archive_path.name in fix_single_archive,
\* zip_path.stem in convert_single_zip.
reported_name(func, item) ==
    IF func = "fix_single_archive" THEN << item.date, ".rar" >> ELSE << item.date >>

\* temp_dir / f"extract_{stem}_{worker_idx}"
temp_extract_dir(item, worker_idx) == << "extract", item.date, worker_idx >>

\* temp_dir / f"repack_{stem}_{worker_idx}"
temp_repack_dir(item, worker_idx) == << "repack", item.date, worker_idx >>

\* The temporary directories of the worker of item i; enumerate counts
\* from 0.
worker_dirs(func, items, i) ==
    IF func = "fix_single_archive"
    THEN {temp_extract_dir(items[i], i - 1), temp_repack_dir(items[i], i - 1)}
    ELSE {temp_extract_dir(items[i], i - 1)}

\* shutil.rmtree(..., ignore_errors=True) on the worker's directories.
rmtree(dirs, gone) == dirs \ gone

\* What a future holds: the tuple the worker returned, or the exception that
\* left the worker.
WorkerReturned(name, success, message) ==
    [kind |-> "result", name |-> name, success |-> success, message |-> message]

WorkerRaised(exception) ==
    [kind |-> "exception", name |-> <<>>, success |-> FALSE, message |-> exception]

NoFuture == [kind |-> "none", name |-> <<>>, success |-> FALSE, message |-> ""]

\* The except clause of a worker: log_message(worker_idx, f"Exception:
\* {str(e)}") and the failure tuple.  When the log cannot take the message
\* the exception of log_message leaves the worker in its place.
except_exception(func, item) ==
    IF item.fate = "exception_unloggable" THEN WorkerRaised("UnicodeEncodeError")
    ELSE WorkerReturned(reported_name(func, item), FALSE, "Exception")

InitRepair ==
    /\ repair_func \in {"fix_single_archive", "convert_single_zip"}
    /\ repair_items \in SeqsUpTo({ RepairItem(fate) : fate \in Fates(repair_func) }, MaxItems)
    /\ worker_pc = <<>>
    /\ future = <<>>
    /\ temp_dirs = {}
    /\ success_count = 0
    /\ failed_items = <<>>
    /\ reported = <<>>
    /\ pool_state = "idle"
    /\ SchemaIdle
    /\ byteorder = "little"
    /\ float_cast = "unused"
    /\ np_empty_byte = 0
    /\ QuantIdle
    /\ YearIdle
    /\ month_name = None
    /\ process_args = <<>>
    /\ df = <<>>
    /\ pc = "idle"
    /\ arr = <<>>
    /\ batch = <<>>
    /\ raw_bytes = <<>>
    /\ compressed_bytes = <<>>
    /\ decoded = NotDecoded
    /\ folder = {}
    /\ phase = "repair"
    /\ symbol_files = EmptyMap
    /\ units = EmptyMap
    /\ disk = {}

RepairRest ==
    << schema_vars, byteorder, float_cast, np_empty_byte, codec_vars, month_vars,
       quant_vars, year_vars >>

\* process_with_pool up to the for loop: the counters are set and every item
\* is submitted with its index.
SubmitAll ==
    /\ phase = "repair"
    /\ pool_state = "idle"
    /\ worker_pc' = [i \in 1..Len(repair_items) |-> "submitted"]
    /\ future' = [i \in 1..Len(repair_items) |-> NoFuture]
    /\ success_count' = 0
    /\ failed_items' = <<>>
    /\ pool_state' = "running"
    /\ UNCHANGED << repair_func, repair_items, temp_dirs, reported, RepairRest >>

\* A worker from its first statement to temp_extract_dir.mkdir: the first
\* log_message stands before the try statement, and so does the probe of
\* convert_single_zip with its early return.
WorkerBegin(i) ==
    /\ pool_state \in {"running", "unwinding"}
    /\ worker_pc[i] = "submitted"
    /\ LET item == repair_items[i]
       IN  IF item.fate = "log_unwritable" THEN
               /\ future' = [future EXCEPT ![i] = WorkerRaised("OSError")]
               /\ worker_pc' = [worker_pc EXCEPT ![i] = "done"]
               /\ UNCHANGED temp_dirs
           ELSE IF repair_func = "convert_single_zip" /\ item.fate = "structure_error" THEN
               /\ future' = [future EXCEPT ![i] =
                                WorkerReturned(reported_name(repair_func, item), FALSE,
                                               "Invalid structure")]
               /\ worker_pc' = [worker_pc EXCEPT ![i] = "done"]
               /\ UNCHANGED temp_dirs
           ELSE
               /\ temp_dirs' = temp_dirs \cup {temp_extract_dir(item, i - 1)}
               /\ worker_pc' = [worker_pc EXCEPT ![i] = "extracting"]
               /\ UNCHANGED future
    /\ UNCHANGED << repair_func, repair_items, success_count, failed_items, reported,
                    pool_state, RepairRest >>

\* The extraction and what follows it up to the call of rar.
\*   fix_single_archive  unrar x; on a return code other than 0 the failure
\*                       tuple; temp_repack_dir.mkdir and the moves
\*   convert_single_zip  zf.extractall
\* Every return and every exception passes through the finally clause.
WorkerExtract(i) ==
    /\ pool_state \in {"running", "unwinding"}
    /\ worker_pc[i] = "extracting"
    /\ LET item == repair_items[i]
           mine == worker_dirs(repair_func, repair_items, i)
       IN  IF repair_func = "fix_single_archive" /\ item.fate = "extract_failed" THEN
               /\ future' = [future EXCEPT ![i] =
                                WorkerReturned(reported_name(repair_func, item), FALSE,
                                               "Extract failed")]
               /\ temp_dirs' = rmtree(temp_dirs, mine)
               /\ worker_pc' = [worker_pc EXCEPT ![i] = "done"]
           ELSE IF item.fate \in {"exception", "exception_unloggable"} THEN
               /\ future' = [future EXCEPT ![i] = except_exception(repair_func, item)]
               /\ temp_dirs' = rmtree(temp_dirs, mine)
               /\ worker_pc' = [worker_pc EXCEPT ![i] = "done"]
           ELSE
               /\ temp_dirs' = temp_dirs \cup mine
               /\ worker_pc' = [worker_pc EXCEPT ![i] = "archiving"]
               /\ UNCHANGED future
    /\ UNCHANGED << repair_func, repair_items, success_count, failed_items, reported,
                    pool_state, RepairRest >>

\* rar a on the repacked tree, the removal of the directories and the
\* result.
WorkerArchive(i) ==
    /\ pool_state \in {"running", "unwinding"}
    /\ worker_pc[i] = "archiving"
    /\ LET item == repair_items[i]
       IN  future' = [future EXCEPT ![i] =
                         IF item.fate = "rar_failed"
                         THEN WorkerReturned(reported_name(repair_func, item), FALSE,
                                             "RAR creation failed")
                         ELSE WorkerReturned(reported_name(repair_func, item), TRUE,
                                             "Success")]
    /\ temp_dirs' = rmtree(temp_dirs, worker_dirs(repair_func, repair_items, i))
    /\ worker_pc' = [worker_pc EXCEPT ![i] = "done"]
    /\ UNCHANGED << repair_func, repair_items, success_count, failed_items, reported,
                    pool_state, RepairRest >>

\* One turn of the loop over as_completed(futures): future.result() of a
\* finished future gives the worker's tuple, which is counted or listed.
Collect(i) ==
    /\ pool_state = "running"
    /\ worker_pc[i] = "done"
    /\ i \notin Range(reported)
    /\ future[i].kind = "result"
    /\ IF future[i].success
       THEN /\ success_count' = success_count + 1
            /\ UNCHANGED failed_items
       ELSE /\ failed_items' = Append(failed_items, << future[i].name, future[i].message >>)
            /\ UNCHANGED success_count
    /\ reported' = Append(reported, i)
    /\ UNCHANGED << repair_func, repair_items, worker_pc, future, temp_dirs, pool_state,
                    RepairRest >>

\* future.result() of a future whose worker raised: the exception is raised
\* again in the loop, which has no handler, and leaves through the with
\* statement.
CollectRaises(i) ==
    /\ pool_state = "running"
    /\ worker_pc[i] = "done"
    /\ i \notin Range(reported)
    /\ future[i].kind = "exception"
    /\ pool_state' = "unwinding"
    /\ UNCHANGED << repair_func, repair_items, worker_pc, future, temp_dirs,
                    success_count, failed_items, reported, RepairRest >>

\* return success_count, failed_items
PoolReturn ==
    /\ pool_state = "running"
    /\ Range(reported) = 1..Len(repair_items)
    /\ pool_state' = "returned"
    /\ UNCHANGED << repair_func, repair_items, worker_pc, future, temp_dirs,
                    success_count, failed_items, reported, RepairRest >>

\* The with statement's exit waits for the workers still running
\* (shutdown(wait=True)) and lets the exception pass: process_with_pool
\* returns nothing.
PoolUnwound ==
    /\ pool_state = "unwinding"
    /\ \A i \in 1..Len(repair_items) : worker_pc[i] = "done"
    /\ pool_state' = "raised"
    /\ UNCHANGED << repair_func, repair_items, worker_pc, future, temp_dirs,
                    success_count, failed_items, reported, RepairRest >>

NextRepair ==
    \/ SubmitAll
    \/ \E i \in DOMAIN worker_pc : WorkerBegin(i)
    \/ \E i \in DOMAIN worker_pc : WorkerExtract(i)
    \/ \E i \in DOMAIN worker_pc : WorkerArchive(i)
    \/ \E i \in DOMAIN worker_pc : Collect(i)
    \/ \E i \in DOMAIN worker_pc : CollectRaises(i)
    \/ PoolReturn
    \/ PoolUnwound

SpecRepair == InitRepair /\ [][NextRepair]_vars

\* process_with_pool has ended, by its return statement or by an exception.
PoolEnded == pool_state \in {"returned", "raised"}

\* C29: when process_with_pool has ended every item has been reported once,
\* as a success or as a failure with its message, and success_count +
\* len(failed_items) is the number of items; the temporary directories of
\* two items differ, and none of a worker's directories exists once that
\* worker is done.
C29_RepairAccounting ==
    /\ PoolEnded =>
           /\ pool_state = "returned"
           /\ \A i \in 1..Len(repair_items) :
                  Cardinality({ k \in 1..Len(reported) : reported[k] = i }) = 1
           /\ success_count + Len(failed_items) = Len(repair_items)
           /\ success_count =
                  Cardinality({ i \in 1..Len(repair_items) : future[i].success })
    /\ \A i, j \in 1..Len(repair_items) :
           i # j => worker_dirs(repair_func, repair_items, i)
                        \cap worker_dirs(repair_func, repair_items, j) = {}
    /\ \A i \in DOMAIN worker_pc :
           worker_pc[i] = "done" =>
               worker_dirs(repair_func, repair_items, i) \cap temp_dirs = {}

====
